---------------------------- MODULE Spec2Model ----------------------------
(***************************************************************************)
(* A model of the offline conversation engine (processOfflineMessage,      *)
(* src/index.tsx) and of the chat orchestrator that calls it (App,         *)
(* src/unnamed/part_000).                                                  *)
(*                                                                         *)
(* JavaScript strings are TLA+ strings: Len, SubSeq and \o act on them     *)
(* character by character.  A JavaScript array is a sequence.  An optional *)
(* value (undefined / null) is a sequence of length 0 or 1.  A call of     *)
(* Math.random is a nondeterministic choice.                               *)
(***************************************************************************)
EXTENDS Integers, Sequences, FiniteSets, TLC

(***************************************************************************)
(* Strings                                                                 *)
(***************************************************************************)
Char(s, i) == SubSeq(s, i, i)

\* String.prototype.toLowerCase on one character
LowerChar(c) ==
    CASE c = "A" -> "a" [] c = "B" -> "b" [] c = "C" -> "c" [] c = "D" -> "d"
      [] c = "E" -> "e" [] c = "F" -> "f" [] c = "G" -> "g" [] c = "H" -> "h"
      [] c = "I" -> "i" [] c = "J" -> "j" [] c = "K" -> "k" [] c = "L" -> "l"
      [] c = "M" -> "m" [] c = "N" -> "n" [] c = "O" -> "o" [] c = "P" -> "p"
      [] c = "Q" -> "q" [] c = "R" -> "r" [] c = "S" -> "s" [] c = "T" -> "t"
      [] c = "U" -> "u" [] c = "V" -> "v" [] c = "W" -> "w" [] c = "X" -> "x"
      [] c = "Y" -> "y" [] c = "Z" -> "z" [] OTHER -> c

\* the character class of the regular expression in tokenize (its backquote
\* is left out: no string of this model holds one)
Punctuation ==
    {".", ",", "/", "#", "!", "$", "%", "^", "&", "*", ";", ":", "{", "}",
     "=", "-", "_", "~", "(", ")", "?"}

\* the characters \s matches
Whitespace == {" ", "\t", "\n", "\r"}

IsWhite(c) == c \in Whitespace

RECURSIVE MapChars(_, _)
\* apply the character map F (1: lower case, 2: lower case, then punctuation
\* to a space) to every character of s; the string is halved at each step
MapChars(F, s) ==
    IF Len(s) = 0 THEN ""
    ELSE IF Len(s) = 1
         THEN IF F = 2 /\ LowerChar(s) \in Punctuation THEN " " ELSE LowerChar(s)
         ELSE LET h == Len(s) \div 2
              IN  MapChars(F, SubSeq(s, 1, h)) \o MapChars(F, SubSeq(s, h + 1, Len(s)))

toLowerCase(s) == MapChars(1, s)

\* String.prototype.trim
trim(s) ==
    LET n == Len(s)
    IN  IF \A i \in 1..n : IsWhite(Char(s, i)) THEN ""
        ELSE LET a == CHOOSE i \in 1..n :
                        /\ ~IsWhite(Char(s, i))
                        /\ \A j \in 1..(i - 1) : IsWhite(Char(s, j))
                 b == CHOOSE i \in 1..n :
                        /\ ~IsWhite(Char(s, i))
                        /\ \A j \in (i + 1)..n : IsWhite(Char(s, j))
             IN  SubSeq(s, a, b)

\* String.prototype.includes
includes(hay, needle) ==
    \E i \in 1..(Len(hay) - Len(needle) + 1) :
        SubSeq(hay, i, i + Len(needle) - 1) = needle

\* String.prototype.startsWith
startsWith(s, p) == Len(p) <= Len(s) /\ SubSeq(s, 1, Len(p)) = p

HasBlank(s) == \E i \in 1..Len(s) : IsWhite(Char(s, i))

\* the blank of s nearest to the middle of s (s has one)
MiddleBlank(s) ==
    LET h == (Len(s) + 1) \div 2
        At(d) == \/ (h + d <= Len(s) /\ IsWhite(Char(s, h + d)))
                 \/ (h - d >= 1 /\ IsWhite(Char(s, h - d)))
        d == CHOOSE x \in 0..Len(s) : At(x) /\ \A y \in 0..(x - 1) : ~At(y)
    IN  IF h + d <= Len(s) /\ IsWhite(Char(s, h + d)) THEN h + d ELSE h - d

RECURSIVE SplitWords(_)
\* String.prototype.split(/\s+/) followed by filter(w => w.length > 0): the
\* maximal runs of non-blank characters of s, from left to right (s is cut at
\* a blank near its middle and the words of the two parts are joined)
SplitWords(s) ==
    IF Len(s) = 0 THEN <<>>
    ELSE IF ~HasBlank(s) THEN <<s>>
    ELSE LET w == MiddleBlank(s)
         IN  SplitWords(SubSeq(s, 1, w - 1)) \o SplitWords(SubSeq(s, w + 1, Len(s)))

\* tokenize: lower case, punctuation to spaces, trim, split on blanks, drop
\* the empty words
tokenize(text) == SplitWords(trim(MapChars(2, text)))

Range(f) == {f[i] : i \in DOMAIN f}

(***************************************************************************)
(* Optional values and the truthiness tests of the code                    *)
(***************************************************************************)
None == <<>>
Some(x) == <<x>>

\* !!v of an optional string: neither undefined/null nor the empty string
Truthy(o) == o # None /\ o[1] # ""

\* state[key] || 0 of a Record<string, number>
CountOf(state, key) == IF key \in DOMAIN state THEN state[key] ELSE 0

\* state[key] = v
SetCount(state, key, v) ==
    [k \in DOMAIN state \cup {key} |-> IF k = key THEN v ELSE state[k]]

(***************************************************************************)
(* Rule scoring (the loop over map.customTraining)                         *)
(***************************************************************************)
\* score of an exact phrase match: 1000 + ruleTokens.length
ExactBase == 1000
\* coverage is scaled by 100 in a fuzzy score
CoverageScale == 100
\* phrases of up to 3 tokens need full coverage
ShortPhraseMax == 3
\* longer phrases need coverage 0.75 = 3 / 4
CoverageNum == 3
CoverageDen == 4

\* A score is a rational <<numerator, denominator>>: coverage is a quotient.
Zero == <<0, 1>>
Greater(a, b) == a[1] * b[2] > b[1] * a[2]
Positive(a) == a[1] > 0
AtLeast(a, n) == a[1] >= n * a[2]

\* ruleTokens.forEach(t => { if (userTokenSet.has(t)) matchCount++ })
MatchCount(ruleTokens, userTokenSet) ==
    Cardinality({k \in DOMAIN ruleTokens : ruleTokens[k] \in userTokenSet})

\* the threshold with coverage > requiredCoverage for the longer phrases (not
\* the code)
CoverageMet_Strict(m, n) ==
    IF n <= ShortPhraseMax THEN m = n
    ELSE m * CoverageDen > CoverageNum * n

\* coverage >= requiredCoverage, for matchCount m of n rule tokens
CoverageMet(m, n) ==
    IF n <= ShortPhraseMax THEN m = n
    ELSE m * CoverageDen >= CoverageNum * n

\* (coverage * 100) + matchCount
FuzzyScore(m, n) == <<CoverageScale * m + m * n, n>>

\* the score of one trigger phrase against the message; a phrase without
\* tokens is skipped (continue) and leaves the rule's maximum as it is
PatternScore(pattern, lowerMsg, userTokenSet) ==
    LET lowerRule == trim(toLowerCase(pattern))
        Score(ruleTokens) ==
            LET n == Len(ruleTokens)
                m == MatchCount(ruleTokens, userTokenSet)
            IN  IF n = 0 THEN Zero
                ELSE IF includes(lowerMsg, lowerRule) THEN <<ExactBase + n, 1>>
                ELSE IF CoverageMet(m, n) THEN FuzzyScore(m, n)
                ELSE Zero
    IN  Score(tokenize(pattern))

\* rule.inputPatterns, or the legacy single rule.inputPattern
PatternsOf(rule) ==
    IF Len(rule.inputPatterns) > 0 THEN rule.inputPatterns
    ELSE IF rule.inputPattern # "" THEN <<rule.inputPattern>>
    ELSE <<>>

RECURSIVE MaxRuleScore(_, _, _, _, _)
\* maxRuleScore after the phrases k.. of patterns, from the maximum so far
MaxRuleScore(patterns, k, best, lowerMsg, userTokenSet) ==
    IF k > Len(patterns) THEN best
    ELSE LET score == PatternScore(patterns[k], lowerMsg, userTokenSet)
         IN  MaxRuleScore(patterns, k + 1,
                          IF Greater(score, best) THEN score ELSE best,
                          lowerMsg, userTokenSet)

RuleScore(rule, lowerMsg, userTokenSet) ==
    MaxRuleScore(PatternsOf(rule), 1, Zero, lowerMsg, userTokenSet)

\* no winner yet for a kind
NoMatch == [rule |-> 0, score |-> Zero]

\* the best match replaced also by a rule of the same score (not the code)
Better_LastWins(best, i, score) ==
    IF best.rule = 0 \/ ~Greater(best.score, score)
    THEN [rule |-> i, score |-> score]
    ELSE best

\* if (!best || maxRuleScore > best.score) best = matchObj
Better(best, i, score) ==
    IF best.rule = 0 \/ Greater(score, best.score)
    THEN [rule |-> i, score |-> score]
    ELSE best

RECURSIVE BestMatches_FirstKind(_, _, _, _, _)
\* the winners when a rule is considered only while no other kind has a
\* winner (not the code)
BestMatches_FirstKind(training, i, best, lowerMsg, userTokenSet) ==
    IF i > Len(training) THEN best
    ELSE LET rule == training[i]
             score == RuleScore(rule, lowerMsg, userTokenSet)
             next ==
                IF ~Positive(score) THEN best
                ELSE IF rule.type = "text" /\ best.image.rule = 0 /\ best.audio.rule = 0
                     THEN [best EXCEPT !.text = Better(best.text, i, score)]
                ELSE IF rule.type = "image_trigger" /\ best.text.rule = 0 /\ best.audio.rule = 0
                     THEN [best EXCEPT !.image = Better(best.image, i, score)]
                ELSE IF rule.type = "audio_trigger" /\ best.text.rule = 0 /\ best.image.rule = 0
                     THEN [best EXCEPT !.audio = Better(best.audio, i, score)]
                ELSE best
         IN  BestMatches_FirstKind(training, i + 1, next, lowerMsg, userTokenSet)

RECURSIVE BestMatches(_, _, _, _, _)
\* the three winners after the rules i.. of customTraining
BestMatches(training, i, best, lowerMsg, userTokenSet) ==
    IF i > Len(training) THEN best
    ELSE LET rule == training[i]
             score == RuleScore(rule, lowerMsg, userTokenSet)
             next ==
                IF ~Positive(score) THEN best
                ELSE IF rule.type = "text"
                     THEN [best EXCEPT !.text = Better(best.text, i, score)]
                ELSE IF rule.type = "image_trigger"
                     THEN [best EXCEPT !.image = Better(best.image, i, score)]
                ELSE IF rule.type = "audio_trigger"
                     THEN [best EXCEPT !.audio = Better(best.audio, i, score)]
                ELSE best
         IN  BestMatches(training, i + 1, next, lowerMsg, userTokenSet)

Winners(training, lowerMsg, userTokenSet) ==
    BestMatches(training, 1,
                [text |-> NoMatch, image |-> NoMatch, audio |-> NoMatch],
                lowerMsg, userTokenSet)

(***************************************************************************)
(* The clock: getTimeGreeting and getCurrentTimePhase                      *)
(***************************************************************************)
getTimeGreeting(hour) ==
    IF hour < 5 THEN "Good late night"
    ELSE IF hour < 12 THEN "Good morning"
    ELSE IF hour < 18 THEN "Good afternoon"
    ELSE "Good evening"

getCurrentTimePhase(hour) ==
    IF hour >= 5 /\ hour < 12 THEN "morning"
    ELSE IF hour >= 12 /\ hour < 17 THEN "afternoon"
    ELSE IF hour >= 17 /\ hour < 23 THEN "evening"
    ELSE "lateNight"

(***************************************************************************)
(* The Image Store: searchImages                                           *)
(***************************************************************************)
\* db.searchImages(personaId, [tag]) over the images of the persona, in
\* store order
searchImages(images, tag) ==
    LET Hit(img) == \/ tag \in Range(img.tags)
                    \/ includes(toLowerCase(img.description), tag)
    IN  SelectSeq(images, Hit)

(***************************************************************************)
(* Phase 2: the winners are applied                                        *)
(***************************************************************************)
\* all responses of the rule, whatever the phase (not the code)
PhaseCandidates_All(rule, phase) == rule.responses

\* the responses of the rule for the current phase, else all of them
PhaseCandidates(rule, phase) ==
    LET Fits(r) == r.timeOfDay = "" \/ r.timeOfDay = "any" \/ r.timeOfDay = phase
        fit == SelectSeq(rule.responses, Fits)
    IN  IF Len(fit) = 0 /\ Len(rule.responses) > 0 THEN rule.responses ELSE fit

\* the candidates of the text winner: as above, else the legacy rule.response
TextCandidates(rule, phase) ==
    LET c == PhaseCandidates(rule, phase)
    IN  IF Len(c) = 0 /\ rule.response # ""
        THEN <<[text |-> rule.response, timeOfDay |-> "any"]>>
        ELSE c

\* responseText after the text winner (getRandomElement: any candidate)
TextRuleTexts(training, win, phase) ==
    IF win.text.rule = 0 THEN {""}
    ELSE LET c == TextCandidates(training[win.text.rule], phase)
         IN  IF Len(c) = 0 THEN {""} ELSE {c[k].text : k \in DOMAIN c}

\* responseText replaced by the caption of the image winner (not the code)
CaptionTexts_Overrides(training, win, phase, text) ==
    IF win.image.rule = 0 THEN {text}
    ELSE LET c == PhaseCandidates(training[win.image.rule], phase)
         IN  IF Len(c) = 0 THEN {text}
             ELSE {IF c[k].text # "" THEN c[k].text ELSE text : k \in DOMAIN c}

\* responseText after the caption of the image winner
CaptionTexts(training, win, phase, text) ==
    IF win.image.rule = 0 THEN {text}
    ELSE LET c == PhaseCandidates(training[win.image.rule], phase)
         IN  IF Len(c) = 0 THEN {text}
             ELSE {IF c[k].text # "" /\ text = "" THEN c[k].text ELSE text :
                     k \in DOMAIN c}

\* no image chosen: the memory is left as it is
NoImage(seen) == [image |-> None, ids |-> seen, tags |-> <<>>, sel |-> None]

\* the image of the image winner picked among all images of the tag, seen
\* or not (not the code)
ImageChoices_NoFilter(training, win, images, throws, seen) ==
    IF win.image.rule = 0 \/ training[win.image.rule].imageTag = "" \/ throws
    THEN {NoImage(seen)}
    ELSE LET tag == training[win.image.rule].imageTag
             taggedImages == searchImages(images, tag)
         IN  IF Len(taggedImages) = 0 THEN {NoImage(seen)}
             ELSE {[image |-> Some(taggedImages[k].data),
                    ids |-> Append(seen, taggedImages[k].id),
                    tags |-> <<tag>>,
                    sel |-> Some(taggedImages[k].id)] : k \in DOMAIN taggedImages}

\* the image of the image winner when the tag is pushed to
\* eventTagsTriggered before the store is queried (not the code)
ImageChoices_ThrowCounts(training, win, images, throws, seen) ==
    IF win.image.rule = 0 \/ training[win.image.rule].imageTag = ""
    THEN {NoImage(seen)}
    ELSE LET tag == training[win.image.rule].imageTag
             taggedImages == IF throws THEN <<>> ELSE searchImages(images, tag)
             Unseen(img) == img.id \notin Range(seen)
             fresh == SelectSeq(taggedImages, Unseen)
             idsToForget == {taggedImages[k].id : k \in DOMAIN taggedImages}
             Kept(id) == id \notin idsToForget
             candidates == IF Len(fresh) = 0 THEN taggedImages ELSE fresh
             seenIds == IF Len(fresh) = 0 THEN SelectSeq(seen, Kept) ELSE seen
         IN  IF Len(taggedImages) = 0
             THEN {[image |-> None, ids |-> seen, tags |-> <<tag>>, sel |-> None]}
             ELSE {[image |-> Some(candidates[k].data),
                    ids |-> Append(seenIds, candidates[k].id),
                    tags |-> <<tag>>,
                    sel |-> Some(candidates[k].id)] : k \in DOMAIN candidates}

\* the image of the image winner when the reset forgets every id of the
\* list (not the code)
ImageChoices_ForgetAll(training, win, images, throws, seen) ==
    IF win.image.rule = 0 \/ training[win.image.rule].imageTag = "" \/ throws
    THEN {NoImage(seen)}
    ELSE LET tag == training[win.image.rule].imageTag
             taggedImages == searchImages(images, tag)
             Unseen(img) == img.id \notin Range(seen)
             fresh == SelectSeq(taggedImages, Unseen)
             candidates == IF Len(fresh) = 0 THEN taggedImages ELSE fresh
             seenIds == IF Len(fresh) = 0 THEN <<>> ELSE seen
         IN  IF Len(taggedImages) = 0 THEN {NoImage(seen)}
             ELSE {[image |-> Some(candidates[k].data),
                    ids |-> Append(seenIds, candidates[k].id),
                    tags |-> <<tag>>,
                    sel |-> Some(candidates[k].id)] : k \in DOMAIN candidates}

\* the image of the image winner when the reset forgets no id of the list
\* (not the code)
ImageChoices_NoForget(training, win, images, throws, seen) ==
    IF win.image.rule = 0 \/ training[win.image.rule].imageTag = "" \/ throws
    THEN {NoImage(seen)}
    ELSE LET tag == training[win.image.rule].imageTag
             taggedImages == searchImages(images, tag)
             Unseen(img) == img.id \notin Range(seen)
             fresh == SelectSeq(taggedImages, Unseen)
             candidates == IF Len(fresh) = 0 THEN taggedImages ELSE fresh
         IN  IF Len(taggedImages) = 0 THEN {NoImage(seen)}
             ELSE {[image |-> Some(candidates[k].data),
                    ids |-> Append(seen, candidates[k].id),
                    tags |-> <<tag>>,
                    sel |-> Some(candidates[k].id)] : k \in DOMAIN candidates}

\* the image of the image winner with the anti-repetition list: the possible
\* <<responseImage, memory.lastSentImageIds, eventTagsTriggered>>
ImageChoices(training, win, images, throws, seen) ==
    IF win.image.rule = 0 \/ training[win.image.rule].imageTag = "" \/ throws
    THEN {NoImage(seen)}
    ELSE LET tag == training[win.image.rule].imageTag
             taggedImages == searchImages(images, tag)
             Unseen(img) == img.id \notin Range(seen)
             fresh == SelectSeq(taggedImages, Unseen)
             idsToForget == {taggedImages[k].id : k \in DOMAIN taggedImages}
             Kept(id) == id \notin idsToForget
             candidates == IF Len(fresh) = 0 THEN taggedImages ELSE fresh
             seenIds == IF Len(fresh) = 0 THEN SelectSeq(seen, Kept) ELSE seen
         IN  IF Len(taggedImages) = 0 THEN {NoImage(seen)}
             ELSE {[image |-> Some(candidates[k].data),
                    ids |-> Append(seenIds, candidates[k].id),
                    tags |-> <<tag>>,
                    sel |-> Some(candidates[k].id)] : k \in DOMAIN candidates}

\* the placeholder text of an audio rule
AudioPlaceholder == "(Audio Message)"

\* <<responseText, responseAudio>> after the audio winner
AudioChoices(training, win, text) ==
    IF win.audio.rule = 0 \/ training[win.audio.rule].audioData = ""
    THEN {[text |-> text, audio |-> None]}
    ELSE LET rule == training[win.audio.rule]
             c == rule.responses
         IN  IF text # "" \/ Len(c) = 0
             THEN {[text |-> text, audio |-> Some(rule.audioData)]}
             ELSE {[text |-> IF c[k].text # "" /\ c[k].text # AudioPlaceholder
                             THEN c[k].text ELSE text,
                    audio |-> Some(rule.audioData)] : k \in DOMAIN c}

\* the state of the turn after phase 2, for every outcome of the random picks
Phase2(training, win, images, throws, phase, seen) ==
    IF Len(training) = 0
    THEN {[text |-> "", image |-> None, audio |-> None, ids |-> seen,
           tags |-> <<>>, sel |-> None, t2a |-> "", t2b |-> ""]}
    ELSE {[text |-> x[4].text, image |-> x[3].image, audio |-> x[4].audio,
           ids |-> x[3].ids, tags |-> x[3].tags, sel |-> x[3].sel,
           t2a |-> x[1], t2b |-> x[2]] :
            x \in
              UNION {UNION {{<<t1, t2, im, a>> : a \in AudioChoices(training, win, t2)} :
                              t2 \in CaptionTexts(training, win, phase, t1)} :
                       <<t1, im>> \in TextRuleTexts(training, win, phase)
                                        \X ImageChoices(training, win, images, throws, seen)}}

(***************************************************************************)
(* The logic engine                                                        *)
(***************************************************************************)
RECURSIVE CountKeys(_, _, _, _)
\* keys.forEach(k => { state[prefix + k] = (state[prefix + k] || 0) + 1 })
CountKeys(state, prefix, keys, k) ==
    IF k > Len(keys) THEN state
    ELSE LET key == prefix \o keys[k]
         IN  CountKeys(SetCount(state, key, CountOf(state, key) + 1), prefix, keys, k + 1)

\* the counter a logic rule watches ("" when rule.monitor is neither kind)
LogicKey(rule) ==
    IF rule.monitor = "user_says_keyword" THEN "kw_" \o toLowerCase(rule.target)
    ELSE IF rule.monitor = "bot_sends_imagetag" THEN "tag_" \o toLowerCase(rule.target)
    ELSE ""

\* currentCount > 0 && currentCount >= rule.threshold
Fires(rule, state) ==
    LET currentCount == IF LogicKey(rule) = "" THEN 0 ELSE CountOf(state, LogicKey(rule))
    IN  currentCount > 0 /\ currentCount >= rule.threshold

\* the action of a firing rule when every firing rule resets its counter
\* (not the code)
LogicAction_AlwaysResets(t, rule, i, images, throws) ==
    LET u == [t EXCEPT !.fired = Append(@, i),
                       !.counts = SetCount(@, LogicKey(rule), 0)]
    IN  IF rule.action = "send_text"
        THEN {[u EXCEPT !.text = IF @ # "" THEN @ \o " " \o rule.actionPayload
                                 ELSE rule.actionPayload]}
        ELSE IF rule.action = "send_image_tag"
        THEN LET taggedImages == IF throws THEN <<>>
                                 ELSE searchImages(images, rule.actionPayload)
             IN  IF Len(taggedImages) = 0 THEN {u}
                 ELSE {[u EXCEPT !.image = Some(taggedImages[k].data)] :
                         k \in DOMAIN taggedImages}
        ELSE IF rule.action = "send_audio"
        THEN {[u EXCEPT !.audio = Some(rule.actionPayload)]}
        ELSE {u}

\* the action of a firing rule when send_text replaces the text (not the
\* code)
LogicAction_Replace(t, rule, i, images, throws) ==
    LET u == [t EXCEPT !.fired = Append(@, i),
                       !.counts = IF rule.resetOnTrigger
                                  THEN SetCount(@, LogicKey(rule), 0) ELSE @]
    IN  IF rule.action = "send_text"
        THEN {[u EXCEPT !.text = rule.actionPayload]}
        ELSE IF rule.action = "send_image_tag"
        THEN LET taggedImages == IF throws THEN <<>>
                                 ELSE searchImages(images, rule.actionPayload)
             IN  IF Len(taggedImages) = 0 THEN {u}
                 ELSE {[u EXCEPT !.image = Some(taggedImages[k].data)] :
                         k \in DOMAIN taggedImages}
        ELSE IF rule.action = "send_audio"
        THEN {[u EXCEPT !.audio = Some(rule.actionPayload)]}
        ELSE {u}

\* the action of a firing rule on the turn t, for every outcome of its pick
LogicAction(t, rule, i, images, throws) ==
    LET u == [t EXCEPT !.fired = Append(@, i),
                       !.counts = IF rule.resetOnTrigger
                                  THEN SetCount(@, LogicKey(rule), 0) ELSE @]
    IN  IF rule.action = "send_text"
        THEN {[u EXCEPT !.text = IF @ # "" THEN @ \o " " \o rule.actionPayload
                                 ELSE rule.actionPayload]}
        ELSE IF rule.action = "send_image_tag"
        THEN LET taggedImages == IF throws THEN <<>>
                                 ELSE searchImages(images, rule.actionPayload)
             IN  IF Len(taggedImages) = 0 THEN {u}
                 ELSE {[u EXCEPT !.image = Some(taggedImages[k].data)] :
                         k \in DOMAIN taggedImages}
        ELSE IF rule.action = "send_audio"
        THEN {[u EXCEPT !.audio = Some(rule.actionPayload)]}
        ELSE {u}

RECURSIVE LogicLoop(_, _, _, _, _)
\* for (const rule of map.logicRules), from rule i on, over the turns in T
LogicLoop(T, logicRules, i, images, throws) ==
    IF i > Len(logicRules) THEN T
    ELSE LogicLoop(UNION {IF Fires(logicRules[i], t.counts)
                          THEN LogicAction(t, logicRules[i], i, images, throws)
                          ELSE {t} : t \in T},
                   logicRules, i + 1, images, throws)

\* the logic engine without the counting of the image tags (not the code)
LogicEngine_NoTags(t, logicRules, userTokens, images, throws) ==
    IF Len(logicRules) = 0 THEN {t}
    ELSE LET state == CountKeys(t.counts, "kw_", userTokens, 1)
         IN  LogicLoop({[t EXCEPT !.counts = state]}, logicRules, 1, images, throws)

\* the logic engine: the counters are updated and the rules checked only when
\* the persona has logic rules
LogicEngine(t, logicRules, userTokens, images, throws) ==
    IF Len(logicRules) = 0 THEN {t}
    ELSE LET state == CountKeys(CountKeys(t.counts, "kw_", userTokens, 1),
                                "tag_", t.tags, 1)
         IN  LogicLoop({[t EXCEPT !.counts = state]}, logicRules, 1, images, throws)

(***************************************************************************)
(* Phase 3: the fallback conversation                                      *)
(***************************************************************************)
GreetingWords == {"hey", "hi", "hello", "yo", "greetings", "hola", "heya", "howdy"}

\* /^(hey|hi|hello|yo|greetings|hola|heya|howdy)(\s|$|[!.?])/i
IsGreeting(lowerMsg) ==
    \E w \in GreetingWords :
        /\ startsWith(lowerMsg, w)
        /\ \/ Len(lowerMsg) = Len(w)
           \/ Char(lowerMsg, Len(w) + 1) \in Whitespace \cup {"!", ".", "?"}

\* /good (morning|afternoon|evening|night)/i
IsTimeGreeting(lowerMsg) ==
    \E w \in {"morning", "afternoon", "evening", "night"} :
        includes(lowerMsg, "good " \o w)

\* /how (are|r) (you|u)|how'?s (it|everything) going|how (are|r) things/i
IsHowAreYou(lowerMsg) ==
    \/ \E a \in {"are", "r"}, b \in {"you", "u", "things"} :
          includes(lowerMsg, "how " \o a \o " " \o b)
    \/ \E a \in {"how's", "hows"}, b \in {"it", "everything"} :
          includes(lowerMsg, a \o " " \o b \o " going")

GreetingReplies(timeGreeting, name) ==
    {timeGreeting \o "! " \o name \o " here.", "Hey! Good to see you.",
     "Hello there!", "Hi! I'm ready to chat."}

HowAreYouReplies ==
    {"I'm doing great, thanks for asking!", "Systems functional and ready to chat.",
     "I'm feeling... electric.", "I'm good! How are you?"}

askPrompt ==
    "I honestly don't know how to answer that yet! Can you teach me? What should I say when you ask that?"

thankYou == "Got it. I've saved that in my memory. What else should I know?"

audioResponses ==
    {"I love hearing your voice! Can you tell me what you just said in text?",
     "You have such a nice voice. What was that about?",
     "I wish I could speak back to you like that. Type that out for me?",
     "Received your voice note. Sounds clear! What's on your mind?",
     "I'm listening, but my audio processor is a bit slow. Can you text me that?"}

(***************************************************************************)
(* processOfflineMessage                                                   *)
(***************************************************************************)
NoWinners == [text |-> NoMatch, image |-> NoMatch, audio |-> NoMatch]

\* What one call returns: text, image, audio and updatedPersona; and, for
\* the properties, what happened inside: the branch that returned, the
\* winners, responseText after the text rule (t2a), after the caption of the
\* image rule (t2b) and after phase 2 (p2text), responseImage and
\* responseAudio after phase 2, the id of the image the image rule picked and
\* the logic rules that fired, in order.
Result(text, image, audio, updatedPersona, branch, win, p2, fired) ==
    [text |-> text, image |-> image, audio |-> audio,
     updatedPersona |-> updatedPersona, branch |-> branch, win |-> win,
     t2a |-> p2.t2a, t2b |-> p2.t2b, p2text |-> p2.text, p2image |-> p2.image,
     p2audio |-> p2.audio, sel |-> p2.sel, fired |-> fired]

\* a call that returns before phase 2
NoPhase2 ==
    [text |-> "", image |-> None, audio |-> None, ids |-> <<>>, tags |-> <<>>,
     sel |-> None, t2a |-> "", t2b |-> ""]

\* HANDLE AUDIO INPUT
AudioReturn(persona) ==
    {Result(r, None, None, persona, "audio", NoWinners, NoPhase2, <<>>) :
        r \in audioResponses}

\* the rule phase 1 synthesizes (its id, Date.now(), is not modelled)
newRule(questionToLearn, answerToLearn) ==
    [inputPattern |-> questionToLearn,
     inputPatterns |-> <<questionToLearn>>,
     responses |-> <<[text |-> answerToLearn, timeOfDay |-> "any"]>>,
     response |-> "",
     type |-> "text", imageTag |-> "", audioData |-> ""]

\* phase 1 without the reset of waitingForDefinition (not the code)
LearnReturn_KeepsWaiting(persona, messageContent) ==
    {Result(thankYou, None, None,
            [persona EXCEPT
               !.customTraining =
                   Append(@, newRule(persona.memory.waitingForDefinition[1],
                                     messageContent))],
            "learn", NoWinners, NoPhase2, <<>>)}

\* PHASE 1: SELF-LEARNING RESOLUTION
LearnReturn(persona, messageContent) ==
    {Result(thankYou, None, None,
            [persona EXCEPT
               !.customTraining =
                   Append(@, newRule(persona.memory.waitingForDefinition[1],
                                     messageContent)),
               !.memory.waitingForDefinition = None],
            "learn", NoWinners, NoPhase2, <<>>)}

\* the teach-me return built from the memory of the input persona (not the
\* code)
Finish_TeachFromInput(persona, messageContent, lowerMsg, hour, win, p2, t, hasRules) ==
    LET memory == [persona.memory EXCEPT
                     !.lastSentImageIds = t.ids,
                     !.logicCounts = IF hasRules THEN t.counts ELSE @]
        done(text) ==
            Result(text, t.image, t.audio, [persona EXCEPT !.memory = memory],
                   IF text = t.text THEN "rules" ELSE "fallback",
                   win, p2, t.fired)
    IN  IF t.text # "" \/ Truthy(t.image) \/ Truthy(t.audio)
        THEN {done(t.text)}
        ELSE IF IsGreeting(lowerMsg)
        THEN {done(r) : r \in GreetingReplies(getTimeGreeting(hour), persona.name)}
        ELSE IF IsTimeGreeting(lowerMsg)
        THEN {done(getTimeGreeting(hour) \o "! Hope you're doing well.")}
        ELSE IF IsHowAreYou(lowerMsg)
        THEN {done(r) : r \in HowAreYouReplies}
        ELSE {Result(askPrompt, None, None,
                     [persona EXCEPT
                        !.memory.waitingForDefinition = Some(messageContent)],
                     "teach", win, p2, t.fired)}

\* the final return without phase 3 (not the code)
Finish_NoFallback(persona, messageContent, lowerMsg, hour, win, p2, t, hasRules) ==
    {Result(t.text, t.image, t.audio,
            [persona EXCEPT !.memory.lastSentImageIds = t.ids,
                            !.memory.logicCounts = IF hasRules THEN t.counts ELSE @],
            "rules", win, p2, t.fired)}

\* PHASE 3 and the final return, for the turn t after the logic engine
Finish(persona, messageContent, lowerMsg, hour, win, p2, t, hasRules) ==
    LET memory == [persona.memory EXCEPT
                     !.lastSentImageIds = t.ids,
                     !.logicCounts = IF hasRules THEN t.counts ELSE @]
        done(text) ==
            Result(text, t.image, t.audio, [persona EXCEPT !.memory = memory],
                   IF text = t.text THEN "rules" ELSE "fallback",
                   win, p2, t.fired)
    IN  IF t.text # "" \/ Truthy(t.image) \/ Truthy(t.audio)
        THEN {done(t.text)}
        ELSE IF IsGreeting(lowerMsg)
        THEN {done(r) : r \in GreetingReplies(getTimeGreeting(hour), persona.name)}
        ELSE IF IsTimeGreeting(lowerMsg)
        THEN {done(getTimeGreeting(hour) \o "! Hope you're doing well.")}
        ELSE IF IsHowAreYou(lowerMsg)
        THEN {done(r) : r \in HowAreYouReplies}
        ELSE {Result(askPrompt, None, None,
                     [persona EXCEPT
                        !.memory = [memory EXCEPT
                                      !.waitingForDefinition = Some(messageContent)]],
                     "teach", win, p2, t.fired)}

\* NORMAL TEXT PROCESSING: phase 2, the logic engine, phase 3
NormalReturn(persona, messageContent, hour, throws, images) ==
    LET lowerMsg == trim(toLowerCase(messageContent))
        userTokens == tokenize(messageContent)
        userTokenSet == Range(userTokens)
        training == persona.customTraining
        win == IF Len(training) = 0 THEN NoWinners
               ELSE Winners(training, lowerMsg, userTokenSet)
        phase == getCurrentTimePhase(hour)
    IN  UNION {UNION {Finish(persona, messageContent, lowerMsg, hour, win,
                             p, t, Len(persona.logicRules) > 0) :
                        t \in LogicEngine([text |-> p.text, image |-> p.image,
                                           audio |-> p.audio, ids |-> p.ids,
                                           tags |-> p.tags,
                                           counts |-> persona.memory.logicCounts,
                                           fired |-> <<>>],
                                          persona.logicRules, userTokens, images, throws)} :
                 p \in Phase2(training, win, images, throws, phase,
                              persona.memory.lastSentImageIds)}

\* the audio interception with the learning phase run first (not the code)
processOfflineMessage_LearnFirst(persona, messageContent, messageType, hour, throws, images) ==
    IF Truthy(persona.memory.waitingForDefinition)
    THEN LearnReturn(persona, messageContent)
    ELSE IF messageType = "AUDIO" THEN AudioReturn(persona)
    ELSE NormalReturn(persona, messageContent, hour, throws, images)

\* every result one call can return, over the outcomes of Math.random; hour
\* is new Date().getHours(), throws tells whether the Image Store's queries
\* of this call throw, images are the images the store holds for the persona
processOfflineMessage(persona, messageContent, messageType, hour, throws, images) ==
    IF messageType = "AUDIO" THEN AudioReturn(persona)
    ELSE IF Truthy(persona.memory.waitingForDefinition)
    THEN LearnReturn(persona, messageContent)
    ELSE NormalReturn(persona, messageContent, hour, throws, images)

(***************************************************************************)
(* The objects of a call: what processOfflineMessage copies and writes     *)
(***************************************************************************)
\* The heap is the sequence of the objects allocated so far, an address is
\* an index of it.  A persona object refers to its neuralMap object and its
\* memory object; the neuralMap refers to the customTraining array; the
\* memory refers to the lastSentImageIds array and the logicCounts object.

\* the objects of a persona nobody has called the engine with yet
HeapOf(persona) ==
    << [id |-> persona.id, name |-> persona.name, map |-> 2, memory |-> 4],
       [customTraining |-> 3, logicRules |-> persona.logicRules],
       persona.customTraining,
       [waitingForDefinition |-> persona.memory.waitingForDefinition,
        lastSentImageIds |-> 5, logicCounts |-> 6],
       persona.memory.lastSentImageIds,
       persona.memory.logicCounts >>

\* the persona read from the object at address p
Deref(h, p) ==
    LET map == h[h[p].map]
        memory == h[h[p].memory]
    IN  [id |-> h[p].id, name |-> h[p].name,
         customTraining |-> h[map.customTraining], logicRules |-> map.logicRules,
         memory |-> [waitingForDefinition |-> memory.waitingForDefinition,
                     lastSentImageIds |-> h[memory.lastSentImageIds],
                     logicCounts |-> h[memory.logicCounts]]]

\* const memory = { ...persona.memory } without the copy of logicCounts (not
\* the code)
CopyMemory_Shallow(h, p) ==
    [heap |-> Append(h, h[h[p].memory]), memory |-> Len(h) + 1]

\* const memory = { ...persona.memory, logicCounts: { ...logicCounts } }: a
\* new logicCounts object and a new memory object that refers to it and to
\* the lastSentImageIds array of the input
CopyMemory(h, p) ==
    LET h1 == Append(h, h[h[h[p].memory].logicCounts])
    IN  [heap |-> Append(h1, [h[h[p].memory] EXCEPT !.logicCounts = Len(h1)]),
         memory |-> Len(h1) + 1]

\* phase 1: updatedTraining, the new neuralMap, the new memory and the new
\* persona are new objects
HeapLearn(c, p, updatedTraining) ==
    LET h1 == Append(c.heap, updatedTraining)
        h2 == Append(h1, [c.heap[c.heap[p].map] EXCEPT !.customTraining = Len(h1)])
        h3 == Append(h2, [c.heap[c.memory] EXCEPT !.waitingForDefinition = None])
        h4 == Append(h3, [c.heap[p] EXCEPT !.map = Len(h2), !.memory = Len(h3)])
    IN  [heap |-> h4, root |-> Len(h4)]

\* memory.lastSentImageIds = [...seenIds, selectedImg.id]: a new array,
\* assigned to the field of the local memory
HeapImage(c, ids) ==
    LET h1 == Append(c.heap, ids)
    IN  [c EXCEPT !.heap = [h1 EXCEPT ![c.memory].lastSentImageIds = Len(h1)]]

\* const state = memory.logicCounts; state[key] = ...: the writes of the
\* logic engine go to the object the local memory refers to
HeapLogic(c, counts) ==
    [c EXCEPT !.heap[c.heap[c.memory].logicCounts] = counts]

\* the teach-me return: { ...persona, memory: { ...memory,
\* waitingForDefinition: messageContent } }
HeapTeach(c, p, messageContent) ==
    LET h1 == Append(c.heap, [c.heap[c.memory] EXCEPT
                                !.waitingForDefinition = Some(messageContent)])
        h2 == Append(h1, [c.heap[p] EXCEPT !.memory = Len(h1)])
    IN  [heap |-> h2, root |-> Len(h2)]

\* the final return: { ...persona, memory: memory }
HeapReturn(c, p) ==
    LET h1 == Append(c.heap, [c.heap[p] EXCEPT !.memory = c.memory])
    IN  [heap |-> h1, root |-> Len(h1)]

\* the heap after the call that returned res for the persona at address p,
\* and the address of its updatedPersona; the audio branch returns the
\* persona it was given
HeapCall(h, p, messageContent, res) ==
    LET c == CopyMemory(h, p)
        hasRules == Len(h[h[p].map].logicRules) > 0
        updated == res.updatedPersona
    IN  IF res.branch = "audio" THEN [heap |-> c.heap, root |-> p]
        ELSE IF res.branch = "learn" THEN HeapLearn(c, p, updated.customTraining)
        ELSE LET c1 == IF res.sel # None
                       THEN HeapImage(c, updated.memory.lastSentImageIds) ELSE c
                 c2 == IF hasRules THEN HeapLogic(c1, updated.memory.logicCounts)
                       ELSE c1
             IN  IF res.branch = "teach" THEN HeapTeach(c2, p, messageContent)
                 ELSE HeapReturn(c2, p)

(***************************************************************************)
(* Personas, rules and images of the checked scenarios                     *)
(***************************************************************************)
\* the number of turns of one conversation
MaxTurns == 4

Resp(text) == [text |-> text, timeOfDay |-> "any"]

\* a response for one phase of the day
RespAt(text, timeOfDay) == [text |-> text, timeOfDay |-> timeOfDay]

TextRule(patterns, responses) ==
    [inputPattern |-> patterns[1], inputPatterns |-> patterns, responses |-> responses,
     response |-> "", type |-> "text", imageTag |-> "", audioData |-> ""]

ImageRule(patterns, responses, tag) ==
    [inputPattern |-> patterns[1], inputPatterns |-> patterns, responses |-> responses,
     response |-> "", type |-> "image_trigger", imageTag |-> tag, audioData |-> ""]

AudioRule(patterns, responses, data) ==
    [inputPattern |-> patterns[1], inputPatterns |-> patterns, responses |-> responses,
     response |-> "", type |-> "audio_trigger", imageTag |-> "", audioData |-> data]

LogicRule(monitor, target, threshold, action, payload, reset) ==
    [monitor |-> monitor, target |-> target, threshold |-> threshold,
     action |-> action, actionPayload |-> payload, resetOnTrigger |-> reset]

Image(id, tags, description) ==
    [id |-> id, tags |-> tags, description |-> description, data |-> "data:" \o id]

\* a rule without trigger phrases
NoTriggers(rule) == [rule EXCEPT !.inputPatterns = <<>>, !.inputPattern = ""]

EmptyCounts == [k \in {} |-> 0]

Persona(id, training, logicRules, seen) ==
    [id |-> id, name |-> "Sam", customTraining |-> training, logicRules |-> logicRules,
     memory |-> [waitingForDefinition |-> None, lastSentImageIds |-> seen,
                 logicCounts |-> EmptyCounts]]

RECURSIVE Repeat(_, _)
\* n copies of the word w, separated by blanks
Repeat(w, n) ==
    IF n = 0 THEN ""
    ELSE IF n = 1 THEN w
    ELSE Repeat(w, n \div 2) \o " " \o Repeat(w, n - n \div 2)

\* the shortest phrase whose full fuzzy score, 100 + n, exceeds the exact
\* score of a one-word phrase, 1000 + 1
LongPhraseTokens == ExactBase + 1 - CoverageScale + 1

Text(m) == [content |-> m, type |-> "TEXT"]
Voice(m) == [content |-> m, type |-> "AUDIO"]
Photo(m) == [content |-> m, type |-> "IMAGE"]

Scenarios ==
    << \* 1: a persona without rules learns from the user
       [persona |-> Persona("p1", <<>>, <<>>, <<>>),
        images |-> <<>>,
        messages |-> {Text("What is x"), Text("???"), Voice("data:audio")},
        hours |-> {9}, throws |-> {FALSE}, less |-> 0],
       \* 2: text, image and audio rules matched exactly and by token overlap
       [persona |-> Persona("p2",
                      <<TextRule(<<"b c">>, <<Resp("T1")>>),
                        TextRule(<<"a b c d">>, <<Resp("T2")>>),
                        TextRule(<<"x y z">>, <<Resp("T3")>>),
                        ImageRule(<<"b">>, <<Resp("C4")>>, "cat"),
                        AudioRule(<<"x">>, <<Resp(AudioPlaceholder)>>, "data:voice")>>,
                      <<>>, <<>>),
        images |-> <<Image("i1", <<"cat">>, "A cat")>>,
        messages |-> {Text("d c b"), Text("a b"), Text("B c, d a"), Text("a d c"),
                      Text("z y x"), Text("z x")},
        hours |-> {9}, throws |-> {FALSE}, less |-> 0],
       \* 3: a one-word phrase against a very long phrase
       [persona |-> Persona("p3",
                      <<TextRule(<<"b">>, <<Resp("TA")>>),
                        TextRule(<<Repeat("a", LongPhraseTokens)>>, <<Resp("TB")>>)>>,
                      <<>>, <<>>),
        images |-> <<>>,
        messages |-> {Text("a b"), Text("b")},
        hours |-> {9}, throws |-> {FALSE}, less |-> 0],
       \* 4: image rules over a store of three cats and a dog
       [persona |-> Persona("p4",
                      <<ImageRule(<<"pic">>, <<Resp("Look")>>, "cat"),
                        ImageRule(<<"dog">>, <<Resp("Woof")>>, "dog")>>,
                      <<>>, <<"i4">>),
        images |-> <<Image("i1", <<"cat">>, ""), Image("i2", <<"cat">>, ""),
                     Image("i3", <<"pet">>, "a CAT"), Image("i4", <<"dog">>, "")>>,
        messages |-> {Text("pic"), Text("dog")},
        hours |-> {9}, throws |-> {FALSE, TRUE}, less |-> 0],
       \* 5: logic rules on keywords, with a rule that answers the keyword
       [persona |-> Persona("p5",
                      <<TextRule(<<"k">>, <<Resp("K!")>>)>>,
                      <<LogicRule("user_says_keyword", "K", 3, "send_text", "three", TRUE),
                        LogicRule("user_says_keyword", "n", 2, "send_audio", "data:n", FALSE)>>,
                      <<>>),
        images |-> <<>>,
        messages |-> {Text("k"), Text("k k"), Text("n")},
        hours |-> {9}, throws |-> {FALSE}, less |-> 0],
       \* 6: a logic rule on a keyword the persona has no answer for
       [persona |-> Persona("p6", <<>>,
                      <<LogicRule("user_says_keyword", "k", 3, "send_text", "three", TRUE)>>,
                      <<>>),
        images |-> <<>>,
        messages |-> {Text("k"), Text("ok")},
        hours |-> {9}, throws |-> {FALSE}, less |-> 0],
       \* 7: rules with equal scores, responses for phases of the day, captions
       \* and audio rules; the turns do not depend on the turns before
       [persona |-> Persona("p7",
                      <<TextRule(<<"hello">>, <<RespAt("Morning!", "morning"), Resp("Hi"),
                                               RespAt("Evening!", "evening")>>),
                        TextRule(<<"zzz", "hello">>, <<Resp("Second")>>),
                        TextRule(<<"night">>, <<RespAt("AM", "morning")>>),
                        ImageRule(<<"hello">>, <<Resp("Cap")>>, "cat"),
                        ImageRule(<<"snap">>, <<Resp("Snap!")>>, "cat"),
                        AudioRule(<<"sing">>, <<Resp(AudioPlaceholder), Resp("La")>>,
                                  "data:song"),
                        AudioRule(<<"hum">>, <<Resp(AudioPlaceholder)>>, "data:hum"),
                        NoTriggers(TextRule(<<"hello">>, <<Resp("Never")>>)),
                        TextRule(<<"blank">>, <<Resp("")>>)>>,
                      <<>>, <<>>),
        images |-> <<Image("i1", <<"cat">>, "")>>,
        messages |-> {Text("hello"), Text("night"), Text("snap"), Text("sing"),
                      Text("hum"), Text("blank")},
        hours |-> {9, 20}, throws |-> {FALSE}, less |-> 2],
       \* 8: several logic rules that fire in one turn
       [persona |-> Persona("p8",
                      <<TextRule(<<"go">>, <<Resp("Go!")>>),
                        ImageRule(<<"go">>, <<>>, "cat"),
                        AudioRule(<<"go">>, <<>>, "data:a0"),
                        ImageRule(<<"solo">>, <<>>, "ghost")>>,
                      <<LogicRule("user_says_keyword", "go", 1, "send_text", "one", FALSE),
                        LogicRule("user_says_keyword", "go", 1, "send_image_tag", "dog", FALSE),
                        LogicRule("user_says_keyword", "go", 1, "send_audio", "data:a1", FALSE),
                        LogicRule("user_says_keyword", "go", 1, "send_text", "two", FALSE),
                        LogicRule("user_says_keyword", "go", 1, "send_image_tag", "fish", FALSE),
                        LogicRule("user_says_keyword", "go", 1, "send_image_tag", "none", FALSE),
                        LogicRule("user_says_keyword", "go", 1, "send_audio", "data:a2", FALSE),
                        LogicRule("bot_sends_imagetag", "cat", 2, "send_text", "cats", TRUE),
                        LogicRule("user_says_keyword", "mute", 1, "send_text", "", FALSE),
                        LogicRule("user_says_keyword", "solo", 1, "send_text", "alone", FALSE)>>,
                      <<>>),
        images |-> <<Image("i1", <<"cat">>, ""), Image("i2", <<"dog">>, ""),
                     Image("i3", <<"fish">>, "")>>,
        messages |-> {Text("go"), Text("solo"), Text("mute")},
        hours |-> {9}, throws |-> {FALSE, TRUE}, less |-> 1],
       \* 9: a photo sent by the user, and the small talk of phase 3
       [persona |-> Persona("p9", <<TextRule(<<"image">>, <<Resp("T-img")>>)>>, <<>>, <<>>),
        images |-> <<>>,
        messages |-> {Photo("data:image/png;base64,AAAA"), Text("hi"),
                      Text("Good night!"), Text("how are you")},
        hours |-> {9}, throws |-> {FALSE}, less |-> 2],
       \* 10: two logic rules on one keyword, the second with a reset, and
       \* rules without reset on a tag and on a keyword of their own
       [persona |-> Persona("p10",
                      <<TextRule(<<"k">>, <<Resp("K!")>>),
                        TextRule(<<"n">>, <<Resp("N!")>>),
                        ImageRule(<<"k">>, <<>>, "cat")>>,
                      <<LogicRule("user_says_keyword", "k", 2, "send_text", "keep", FALSE),
                        LogicRule("user_says_keyword", "k", 2, "send_audio", "data:r", TRUE),
                        LogicRule("bot_sends_imagetag", "Cat", 1, "send_text", "seen", FALSE),
                        LogicRule("user_says_keyword", "n", 1, "send_text", "en", FALSE)>>,
                      <<>>),
        images |-> <<Image("i1", <<"cat">>, "")>>,
        messages |-> {Text("k"), Text("n")},
        hours |-> {9}, throws |-> {FALSE}, less |-> 1] >>

(***************************************************************************)
(* A conversation: each turn is fed the updatedPersona of the turn before  *)
(***************************************************************************)
VARIABLES
    scen,      \* the scenario of this conversation
    persona,   \* the persona the next call is given
    log,       \* the turns so far: the call's arguments and its result
    heap,      \* the objects allocated so far
    root,      \* the address of the persona object the next call is given
    \* the state of the App component (part_000)
    personas,          \* useState personas: persona id -> persona
    sessions,          \* useState sessions: persona id -> messages
    activePersonaId,   \* useState activePersonaId, None when null
    lastClearTime,     \* lastClearTimeRef.current: persona id -> time, 0 unset
    dbPersonas,        \* what db.savePersona stored last, per persona id
    now,               \* what Date.now() returned last
    tasks,             \* the calls of handleSendMessage so far
    clears,            \* the number of chats cleared so far
    deleted,           \* the ids handleBulkDelete was called with so far
    \* the state of the deployer (part_001, github.ts)
    upload,            \* the call of GitHubService.uploadFile for the workflow
    deploy             \* the call of handleDeploy from the workflow upload on

convVars == <<scen, persona, log, heap, root>>
appVars == <<personas, sessions, activePersonaId, lastClearTime, dbPersonas, now, tasks,
            clears, deleted>>
deployVars == <<upload, deploy>>
vars == <<scen, persona, log, heap, root, personas, sessions, activePersonaId, lastClearTime,
          dbPersonas, now, tasks, clears, deleted, upload, deploy>>

\* handleDeploy is not running
DeployIdle ==
    /\ upload = [pc |-> "idle"]
    /\ deploy = [pc |-> "idle"]

\* the App is not part of a conversation of Spec
AppIdle ==
    /\ personas = <<>> /\ sessions = <<>> /\ activePersonaId = None
    /\ lastClearTime = <<>> /\ dbPersonas = <<>> /\ now = 0 /\ tasks = <<>>
    /\ clears = 0 /\ deleted = {}

Init ==
    /\ scen \in DOMAIN Scenarios
    /\ persona = Scenarios[scen].persona
    /\ log = <<>>
    /\ heap = HeapOf(persona)
    /\ root = 1
    /\ AppIdle
    /\ DeployIdle

\* one call of processOfflineMessage and the hand-over of its updatedPersona;
\* a conversation of scenario s has MaxTurns - Scenarios[s].less turns
Turn(m) ==
    /\ Len(log) + Scenarios[scen].less < MaxTurns
    /\ \E hour \in Scenarios[scen].hours, throws \in Scenarios[scen].throws :
         \E res \in processOfflineMessage(persona, m.content, m.type, hour, throws,
                                          Scenarios[scen].images) :
            /\ persona' = res.updatedPersona
            /\ heap' = HeapCall(heap, root, m.content, res).heap
            /\ root' = HeapCall(heap, root, m.content, res).root
            /\ log' = Append(log, [before |-> persona, root |-> root,
                                   content |-> m.content, type |-> m.type,
                                   hour |-> hour, throws |-> throws, res |-> res])
    /\ UNCHANGED <<scen, appVars, deployVars>>

SendText == \E m \in Scenarios[scen].messages : m.type = "TEXT" /\ Turn(m)

SendAudio == \E m \in Scenarios[scen].messages : m.type = "AUDIO" /\ Turn(m)

SendImage == \E m \in Scenarios[scen].messages : m.type = "IMAGE" /\ Turn(m)

Next == SendText \/ SendAudio \/ SendImage

Spec == Init /\ [][Next]_vars

(***************************************************************************)
(* Properties of a conversation                                            *)
(***************************************************************************)
Turns == DOMAIN log

\* the turn just made: the earlier turns were the last turn of an earlier
\* state
LastTurn == IF Len(log) = 0 THEN {} ELSE {Len(log)}

\* the persona returned by turn i
After(i) == log[i].res.updatedPersona

\* the turn went through rule matching (neither intercepted as audio nor
\* taken as a definition)
Matched(e) == e.res.branch \in {"rules", "fallback", "teach"}

LowerOf(e) == trim(toLowerCase(e.content))
TokenSetOf(e) == Range(tokenize(e.content))

\* C1: a non-audio message that arrives while waitingForDefinition holds Q
\* appends exactly one text rule (triggers [Q], one response: the message,
\* for any time of day), clears waitingForDefinition, returns the fixed
\* acknowledgment without image or audio, and neither matches rules nor
\* runs the logic engine: counters and sent-image list stay as they were.
C1_PendingDefinition ==
    \A i \in LastTurn :
        LET e == log[i]
            old == e.before.customTraining
            new == After(i).customTraining
        IN  (e.type # "AUDIO" /\ Truthy(e.before.memory.waitingForDefinition)) =>
              /\ Len(new) = Len(old) + 1
              /\ SubSeq(new, 1, Len(old)) = old
              /\ new[Len(new)].type = "text"
              /\ new[Len(new)].inputPatterns = <<e.before.memory.waitingForDefinition[1]>>
              /\ new[Len(new)].responses = <<[text |-> e.content, timeOfDay |-> "any"]>>
              /\ After(i).memory.waitingForDefinition = None
              /\ e.res.text = thankYou
              /\ e.res.image = None /\ e.res.audio = None
              /\ After(i).memory.logicCounts = e.before.memory.logicCounts
              /\ After(i).memory.lastSentImageIds = e.before.memory.lastSentImageIds
              /\ After(i).logicRules = e.before.logicRules
              /\ e.res.fired = <<>> /\ e.res.win = NoWinners

\* a definition was given in a turn whose message carries the keyword of a
\* logic rule of the persona
C1_Witness ==
    \E i \in Turns :
        /\ log[i].type = "TEXT"
        /\ Truthy(log[i].before.memory.waitingForDefinition)
        /\ Len(log[i].before.logicRules) > 0
        /\ "k" \in TokenSetOf(log[i])

\* the rule learned from turn i (the teach-me prompt) and turn i + 1
Learned(i) == After(i + 1).customTraining[Len(After(i + 1).customTraining)]

\* C2: an unrecognized message M (the turn returns the teach-me prompt)
\* followed by a reply R leaves exactly one more rule, a text rule with the
\* sole trigger M and the sole response R; and every send of M that follows
\* is matched exactly (score >= 1000) by that rule and answered with R, not
\* with the teach-me prompt.
C2_RoundTrip ==
    \A i \in Turns :
        (log[i].res.branch = "teach" /\ i + 1 \in Turns /\ log[i + 1].type = "TEXT") =>
            /\ Len(After(i + 1).customTraining) = Len(log[i].before.customTraining) + 1
            /\ Learned(i).type = "text"
            /\ Learned(i).inputPatterns = <<log[i].content>>
            /\ Learned(i).responses = <<Resp(log[i + 1].content)>>
            /\ \A k \in Turns :
                 (/\ k > i + 1
                  /\ \A j \in (i + 2)..k : log[j].content = log[i].content
                                            /\ log[j].type = "TEXT") =>
                     /\ log[k].res.branch # "teach"
                     /\ log[k].res.win.text.rule = Len(After(i + 1).customTraining)
                     /\ AtLeast(log[k].res.win.text.score, ExactBase)
                     /\ log[k].res.p2text = log[i + 1].content

\* the round trip works for a message made of words
C2_WordsRoundTrip ==
    \E i \in Turns :
        /\ i + 2 \in Turns
        /\ log[i].res.branch = "teach" /\ log[i].content = "What is x"
        /\ log[i + 2].content = "What is x"
        /\ log[i + 2].res.text = log[i + 1].content

\* rule r has a trigger phrase that occurs verbatim in the message of e
ExactlyMatched(r, e) ==
    \E k \in DOMAIN PatternsOf(r) :
        /\ Len(tokenize(PatternsOf(r)[k])) > 0
        /\ includes(LowerOf(e), trim(toLowerCase(PatternsOf(r)[k])))

\* rule r matches the message of e, and by token overlap only
FuzzyMatched(r, e) ==
    /\ ~ExactlyMatched(r, e)
    /\ Positive(RuleScore(r, LowerOf(e), TokenSetOf(e)))

\* the winner of e for the kind of rule r
WinnerOfKind(r, e) ==
    IF r.type = "text" THEN e.res.win.text.rule
    ELSE IF r.type = "image_trigger" THEN e.res.win.image.rule
    ELSE e.res.win.audio.rule

\* C5: within one rule kind, a rule A with a trigger phrase verbatim in the
\* message outscores every rule B matched only by token overlap, and B is
\* not the winner, however many tokens B shares with the message.
C5_ExactPrecedence ==
    \A i \in LastTurn :
        LET e == log[i]
            rules == e.before.customTraining
        IN  Matched(e) =>
              \A a, b \in DOMAIN rules :
                 (/\ rules[a].type = rules[b].type
                  /\ ExactlyMatched(rules[a], e)
                  /\ FuzzyMatched(rules[b], e)) =>
                     /\ Greater(RuleScore(rules[a], LowerOf(e), TokenSetOf(e)),
                                RuleScore(rules[b], LowerOf(e), TokenSetOf(e)))
                     /\ WinnerOfKind(rules[b], e) # b

\* the exact match wins against a fuzzy match of four tokens out of four
C5_ShortPhrases ==
    \E i \in Turns :
        /\ log[i].content = "B c, d a"
        /\ log[i].res.win.text.rule = 1
        /\ log[i].res.text = "T1"

\* C6: a trigger phrase that is not verbatim in the message scores above 0
\* iff, having 1 to 3 tokens, all its tokens are message tokens, or, having
\* 4 or more tokens, at least 0.75 of its tokens are message tokens.
C6_CoverageThreshold ==
    \A i \in LastTurn :
        LET e == log[i]
            rules == e.before.customTraining
            lowerMsg == LowerOf(e)
            userTokenSet == TokenSetOf(e)
        IN  Matched(e) =>
              \A r \in DOMAIN rules : \A k \in DOMAIN PatternsOf(rules[r]) :
                 LET pattern == PatternsOf(rules[r])[k]
                     phrase == tokenize(pattern)
                     n == Len(phrase)
                     hit == {t \in DOMAIN phrase : phrase[t] \in userTokenSet}
                 IN  (n > 0 /\ ~includes(lowerMsg, trim(toLowerCase(pattern)))) =>
                       (Positive(PatternScore(pattern, lowerMsg, userTokenSet))
                          <=> IF n <= 3 THEN \A t \in DOMAIN phrase : phrase[t] \in userTokenSet
                              ELSE 4 * Cardinality(hit) >= 3 * n)

\* rule r is the text winner of some turn with the message m
TextWinner(m, r) == \E i \in Turns : log[i].content = m /\ log[i].res.win.text.rule = r

\* the boundary: 3 of 4 tokens match and 2 of 4 do not; 3 of 3 match (in
\* another order) and 2 of 3 do not
C6_Witness ==
    /\ TextWinner("a d c", 2) /\ TextWinner("a b", 0)
    /\ TextWinner("z y x", 3) /\ TextWinner("z x", 0)

\* the best score of a kind among the rules of a turn
IsBestOfKind(e, kind, w) ==
    LET rules == e.before.customTraining
        ofKind == {r \in DOMAIN rules : rules[r].type = kind}
        score == [r \in ofKind |-> RuleScore(rules[r], LowerOf(e), TokenSetOf(e))]
        scoring == {r \in ofKind : Positive(score[r])}
    IN  IF scoring = {} THEN w = 0
        ELSE w \in scoring /\ \A r \in scoring : ~Greater(score[r], score[w])

\* C7: the text, image and audio winners are each the best rule of their
\* kind over the whole rule list, whether or not another kind has a winner;
\* a message that matches a text rule and an image rule yields the text of
\* the text rule and an image of the image rule's tag held by the store.
C7_Independence ==
    \A i \in LastTurn :
        LET e == log[i]
            rules == e.before.customTraining
            win == e.res.win
        IN  (Matched(e) /\ Len(rules) > 0) =>
              /\ IsBestOfKind(e, "text", win.text.rule)
              /\ IsBestOfKind(e, "image_trigger", win.image.rule)
              /\ IsBestOfKind(e, "audio_trigger", win.audio.rule)
              /\ (/\ win.text.rule # 0 /\ win.image.rule # 0 /\ ~e.throws
                  /\ Len(searchImages(Scenarios[scen].images,
                                      rules[win.image.rule].imageTag)) > 0) =>
                    /\ \E k \in DOMAIN rules[win.text.rule].responses :
                          e.res.p2text = rules[win.text.rule].responses[k].text
                    /\ startsWith(e.res.text, e.res.p2text)
                    /\ e.res.sel # None
                    /\ \E k \in DOMAIN Scenarios[scen].images :
                          /\ Scenarios[scen].images[k].id = e.res.sel[1]
                          /\ rules[win.image.rule].imageTag \in Range(Scenarios[scen].images[k].tags)
                          /\ Len(e.res.fired) = 0 => e.res.image = Some(Scenarios[scen].images[k].data)

\* one message answered by a text rule and by an image rule
C7_Witness ==
    \E i \in Turns :
        /\ log[i].res.win.text.rule = 1 /\ log[i].res.win.image.rule = 4
        /\ log[i].res.text = "T1" /\ log[i].res.image = Some("data:i1")

\* C10: an audio message is answered with one of the five fixed replies,
\* without image or audio, and updatedPersona is the given persona, whatever
\* the rules and even while waitingForDefinition is set.
C10_AudioInterception ==
    \A i \in LastTurn :
        log[i].type = "AUDIO" =>
            /\ log[i].res.text \in audioResponses
            /\ Cardinality(audioResponses) = 5
            /\ log[i].res.image = None /\ log[i].res.audio = None
            /\ After(i) = log[i].before

\* an audio message sent while a definition is awaited
C10_Witness ==
    \E i \in Turns :
        /\ log[i].type = "AUDIO"
        /\ Truthy(log[i].before.memory.waitingForDefinition)

\* the ids of the images the store holds for tag
IdsOfTag(tag) ==
    {img.id : img \in Range(searchImages(Scenarios[scen].images, tag))}

\* in turn i the image rule of tag won and the store answered
ImageTurn(i, tag) ==
    /\ Matched(log[i])
    /\ log[i].res.win.image.rule # 0
    /\ log[i].before.customTraining[log[i].res.win.image.rule].imageTag = tag
    /\ ~log[i].throws

SeenBefore(i) == Range(log[i].before.memory.lastSentImageIds)

\* C8: with N images for tag T in the store and none of them in
\* lastSentImageIds, N consecutive turns that trigger the image rule of T
\* send N pairwise distinct images; an image already in the list is sent
\* again, and ids of T are forgotten, only when all N are in the list.
C8_AntiRepetition ==
    \A tag \in {"cat", "dog"} :
        LET ids == IdsOfTag(tag)
            N == Cardinality(ids)
        IN  \A i \in Turns :
              /\ (/\ N > 0 /\ i + N - 1 \in Turns
                  /\ \A j \in i..(i + N - 1) : ImageTurn(j, tag)
                  /\ SeenBefore(i) \cap ids = {}) =>
                    /\ \A j \in i..(i + N - 1) :
                          log[j].res.sel # None /\ log[j].res.sel[1] \in ids
                    /\ \A j, k \in i..(i + N - 1) :
                          j # k => log[j].res.sel # log[k].res.sel
              /\ (/\ ImageTurn(i, tag) /\ N > 0
                  /\ \/ log[i].res.sel[1] \in SeenBefore(i)
                     \/ ~(SeenBefore(i) \subseteq Range(After(i).memory.lastSentImageIds))) =>
                    ids \subseteq SeenBefore(i)

\* three turns sent the three cats and the fourth sent one of them again
C8_Witness ==
    /\ Len(log) = 4
    /\ \A i \in Turns : ImageTurn(i, "cat")
    /\ Cardinality({log[i].res.sel : i \in 1..3}) = 3
    /\ IdsOfTag("cat") = {"i1", "i2", "i3"}
    /\ log[4].res.image = log[1].res.image

\* the number of times the keyword kw occurs in the message of turn i
Occurrences(i, kw) ==
    IF log[i].type # "TEXT" THEN 0
    ELSE Cardinality({t \in DOMAIN tokenize(log[i].content) :
                         tokenize(log[i].content)[t] = kw})

FiredIn(i, r) == r \in Range(log[i].res.fired)

RECURSIVE SinceLastFiring(_, _, _)
\* the occurrences of kw in the turns up to turn i that follow the last
\* turn before i in which logic rule r fired
SinceLastFiring(i, r, kw) ==
    IF i = 0 THEN 0
    ELSE Occurrences(i, kw)
           + (IF i = 1 \/ FiredIn(i - 1, r) THEN 0 ELSE SinceLastFiring(i - 1, r, kw))

\* C9: a logic rule on a user keyword with threshold 3 and resetOnTrigger
\* fires in the turn that carries the 3rd occurrence of the keyword and in
\* no earlier turn, and after a firing not before 3 further occurrences.
C9_ThresholdFiring ==
    \A i \in Turns :
        \A r \in DOMAIN log[i].before.logicRules :
            LET rule == log[i].before.logicRules[r]
            IN  (/\ rule.monitor = "user_says_keyword"
                 /\ rule.threshold = 3 /\ rule.resetOnTrigger) =>
                   (FiredIn(i, r) <=> SinceLastFiring(i, r, toLowerCase(rule.target)) >= 3)

\* the calls the next turn can make
NextCalls ==
    {<<m, hour, throws>> \in Scenarios[scen].messages \X Scenarios[scen].hours
                              \X Scenarios[scen].throws : TRUE}

\* the conversation has a turn left
MoreTurns == Len(log) + Scenarios[scen].less < MaxTurns

\* C11: every call the conversation makes returns, whatever the persona, the
\* message and the Image Store do (a store whose queries throw included),
\* and what it returns has a non-empty text, image or audio.
C11_NoEmptyBundle ==
    /\ MoreTurns =>
          \A c \in NextCalls :
             processOfflineMessage(persona, c[1].content, c[1].type, c[2], c[3],
                                   Scenarios[scen].images) # {}
    /\ \A i \in LastTurn :
          log[i].res.text # "" \/ Truthy(log[i].res.image) \/ Truthy(log[i].res.audio)

\* the store throws, the only logic rule that fires sends an empty text, and
\* phase 3 answers
C11_Witness ==
    \E i \in Turns :
        /\ log[i].throws /\ log[i].res.fired = <<9>>
        /\ log[i].res.p2text = "" /\ log[i].res.text = askPrompt

\* the image winner of turn e made the call query the Image Store
StoreQueried(e) ==
    /\ Matched(e)
    /\ e.res.win.image.rule # 0
    /\ e.before.customTraining[e.res.win.image.rule].imageTag # ""

\* the counters of image tags in counts
TagKeys(counts) == {k \in DOMAIN counts : startsWith(k, "tag_")}

\* C12: when the Image Store throws while the image winner is applied, the
\* turn ends as if the store held no image: no image of that rule, the same
\* lastSentImageIds, no tag counter incremented, the text and audio of a turn
\* with an empty store, and a result for the caller.
C12_StoreFailureSwallowed ==
    \A i \in LastTurn :
        LET e == log[i]
        IN  (e.throws /\ StoreQueried(e)) =>
              /\ e.res \in processOfflineMessage(e.before, e.content, e.type, e.hour,
                                                 FALSE, <<>>)
              /\ e.res.sel = None /\ e.res.p2image = None /\ e.res.image = None
              /\ After(i).memory.lastSentImageIds = e.before.memory.lastSentImageIds
              /\ \A k \in TagKeys(After(i).memory.logicCounts) :
                    CountOf(After(i).memory.logicCounts, k)
                       <= CountOf(e.before.memory.logicCounts, k)

\* the store holds an image for the winner's tag and throws; the persona has
\* logic rules, and text and audio are returned
C12_Witness ==
    \E i \in Turns :
        /\ log[i].throws /\ StoreQueried(log[i])
        /\ Len(searchImages(Scenarios[scen].images,
                            log[i].before.customTraining[log[i].res.win.image.rule].imageTag)) > 0
        /\ Len(log[i].before.logicRules) > 0
        /\ log[i].res.text = "Go! one two" /\ log[i].res.audio = Some("data:a2")

\* C13: a message of type IMAGE is not matched against the trained rules:
\* no rule wins and no text, image or audio of a rule is returned, only a
\* canned reply.
C13_ImageInputNotMatched ==
    \A i \in LastTurn :
        log[i].type = "IMAGE" =>
            /\ log[i].res.win = NoWinners
            /\ log[i].res.branch \in {"audio", "fallback", "teach"}
            /\ log[i].res.image = None /\ log[i].res.audio = None

\* a logic rule that fired in turn i set the counter key back to 0
ResetIn(i, key) ==
    \E k \in DOMAIN log[i].res.fired :
        LET rule == log[i].before.logicRules[log[i].res.fired[k]]
        IN  rule.resetOnTrigger /\ LogicKey(rule) = key

\* C14: in every text turn, whether or not a rule matched and whether or not
\* the persona has logic rules, the keyword counter of each token of the
\* message grows by one per occurrence (unless a firing rule resets it).
C14_CountersEveryTurn ==
    \A i \in LastTurn :
        log[i].type = "TEXT" =>
            \A t \in TokenSetOf(log[i]) :
                ~ResetIn(i, "kw_" \o t) =>
                    CountOf(After(i).memory.logicCounts, "kw_" \o t)
                      = CountOf(log[i].before.memory.logicCounts, "kw_" \o t)
                          + Occurrences(i, t)

\* with logic rules, a turn that goes through the logic engine counts its
\* tokens
C14_CountedWithRules ==
    \E i \in Turns :
        /\ log[i].content = "k k" /\ Matched(log[i])
        /\ CountOf(log[i].before.memory.logicCounts, "kw_k") = 0
        /\ CountOf(After(i).memory.logicCounts, "kw_k") = 2

\* the score of rule r of turn e
ScoreIn(e, r) == RuleScore(e.before.customTraining[r], LowerOf(e), TokenSetOf(e))

\* the scores of the rules of turn e
ScoresIn(e) == [r \in DOMAIN e.before.customTraining |-> ScoreIn(e, r)]

\* the rules of a kind with a positive score among the scores score
Scoring(rules, score, kind) ==
    {r \in DOMAIN rules : rules[r].type = kind /\ Positive(score[r])}

\* the first of the rules of a kind with the highest positive score, 0 when
\* there is none
FirstBest(rules, score, kind) ==
    LET scoring == Scoring(rules, score, kind)
        top == {r \in scoring : \A q \in scoring : ~Greater(score[q], score[r])}
    IN  IF top = {} THEN 0 ELSE CHOOSE r \in top : \A q \in top : r <= q

\* C15: the winner of each kind has a positive score that no rule of the
\* kind exceeds, and is the earliest of the rules with that score; a rule
\* with score 0 or without trigger phrases does not win.
C15_FirstWinsTieBreak ==
    \A i \in LastTurn :
        LET e == log[i]
            win == e.res.win
            rules == e.before.customTraining
            score == ScoresIn(e)
        IN  Matched(e) =>
              /\ win.text.rule = FirstBest(rules, score, "text")
              /\ win.image.rule = FirstBest(rules, score, "image_trigger")
              /\ win.audio.rule = FirstBest(rules, score, "audio_trigger")
              /\ \A w \in {win.text.rule, win.image.rule, win.audio.rule} \ {0} :
                    /\ Positive(score[w])
                    /\ Len(PatternsOf(e.before.customTraining[w])) > 0

\* two text rules score 1001, the second by its second phrase, and the
\* first wins; the rule without phrases is in the list
C15_Witness ==
    \E i \in Turns :
        /\ Len(log[i].before.customTraining) >= 8
        /\ log[i].res.win.text.rule = 1
        /\ ScoreIn(log[i], 1) = <<ExactBase + 1, 1>>
        /\ ScoreIn(log[i], 2) = <<ExactBase + 1, 1>>
        /\ Len(PatternsOf(log[i].before.customTraining[8])) = 0

\* the responses of rule whose time of day is the phase of hour, 'any' or
\* absent
FittingResponses(rule, hour) ==
    {k \in DOMAIN rule.responses :
        rule.responses[k].timeOfDay \in {getCurrentTimePhase(hour), "any", ""}}

\* C16: when a text rule wins, the text it sets is the text of one of its
\* responses for the current phase or for any phase if it has one, and
\* otherwise of one of all its responses.
C16_TimeOfDayFilter ==
    \A i \in LastTurn :
        LET e == log[i]
        IN  (Matched(e) /\ e.res.win.text.rule # 0) =>
              LET rule == e.before.customTraining[e.res.win.text.rule]
                  fit == FittingResponses(rule, e.hour)
              IN  /\ fit # {} => \E k \in fit : e.res.t2a = rule.responses[k].text
                  /\ (fit = {} /\ Len(rule.responses) > 0) =>
                        \E k \in DOMAIN rule.responses : e.res.t2a = rule.responses[k].text

\* in the morning the morning response of a rule with responses for three
\* phases is given, and in the evening the only response of a rule that has
\* none but a morning response
C16_Witness ==
    /\ \E i \in Turns :
          /\ log[i].hour = 9 /\ log[i].content = "hello"
          /\ log[i].res.t2a = "Morning!" /\ log[i].res.text = "Morning!"
    /\ \E i \in Turns :
          /\ log[i].hour = 20 /\ log[i].content = "night"
          /\ log[i].res.win.text.rule = 3 /\ log[i].res.text = "AM"

\* the texts of the responses of rule
ResponseTexts(rule) == {rule.responses[k].text : k \in DOMAIN rule.responses}

\* C17: when a text rule and an image rule both win and the text rule set a
\* non-empty text, the text before the logic rules is that response of the
\* text rule and the caption is not used; the caption of the image rule
\* becomes the text only when the text rule set none.
C17_CaptionPrecedence ==
    \A i \in LastTurn :
        LET e == log[i]
            rules == e.before.customTraining
        IN  Matched(e) =>
              /\ (e.res.win.text.rule # 0 /\ e.res.win.image.rule # 0 /\ e.res.t2a # "") =>
                    /\ e.res.t2a \in ResponseTexts(rules[e.res.win.text.rule])
                    /\ e.res.t2b = e.res.t2a
                    /\ e.res.p2text = e.res.t2a
              /\ e.res.t2b # e.res.t2a =>
                    /\ e.res.t2a = ""
                    /\ e.res.win.image.rule # 0
                    /\ e.res.t2b \in ResponseTexts(rules[e.res.win.image.rule])

\* a turn with a text and an image winner that returns the text rule's
\* response with the image, and a turn with an image winner alone that
\* returns its caption
C17_Witness ==
    /\ \E i \in Turns :
          /\ log[i].res.win.text.rule = 1 /\ log[i].res.win.image.rule = 4
          /\ log[i].res.text = "Hi" /\ log[i].res.image = Some("data:i1")
    /\ \E i \in Turns :
          /\ log[i].res.win.text.rule = 0 /\ log[i].res.win.image.rule = 5
          /\ log[i].res.t2a = "" /\ log[i].res.text = "Snap!"

\* C18: when an audio rule with a payload wins, the audio after phase 2 is
\* the payload; and if no text is set yet, the text is a response of the
\* rule other than the placeholder whenever the rule has one, and stays
\* empty only when the rule has none.
C18_AudioWinnerText ==
    \A i \in LastTurn :
        LET e == log[i]
        IN  (Matched(e) /\ e.res.win.audio.rule # 0) =>
              LET rule == e.before.customTraining[e.res.win.audio.rule]
                  others == ResponseTexts(rule) \ {AudioPlaceholder}
              IN  rule.audioData # "" =>
                    /\ e.res.p2audio = Some(rule.audioData)
                    /\ e.res.t2b = "" =>
                          IF others # {} THEN e.res.p2text \in others
                          ELSE e.res.p2text = ""

\* the rule whose only response is the placeholder sends its audio without
\* text
C18_PlaceholderOnly ==
    \E i \in Turns :
        /\ log[i].res.win.audio.rule = 7
        /\ log[i].res.audio = Some("data:hum") /\ log[i].res.text = ""

RECURSIVE TextAfter(_, _, _, _)
\* text with the payloads of the send_text rules among fired[k..] appended in
\* that order, a blank before each when a text is there
TextAfter(text, logicRules, fired, k) ==
    IF k > Len(fired) THEN text
    ELSE LET rule == logicRules[fired[k]]
         IN  TextAfter(IF rule.action # "send_text" THEN text
                       ELSE IF text # "" THEN text \o " " \o rule.actionPayload
                       ELSE rule.actionPayload,
                       logicRules, fired, k + 1)

\* the positions in the firings of turn e of the rules of an action
FiringsOf(e, action) ==
    {k \in DOMAIN e.res.fired : e.before.logicRules[e.res.fired[k]].action = action}

\* the images the store gives turn e for the payload of its k-th firing
ImagesFor(e, k) ==
    IF e.throws THEN <<>>
    ELSE searchImages(Scenarios[scen].images,
                      e.before.logicRules[e.res.fired[k]].actionPayload)

Last(S) == CHOOSE k \in S : \A j \in S : j <= k

\* C19: the logic rules that fire in a turn are applied in list order; each
\* send_text payload is appended after the text there is (or becomes the
\* text when there is none); the image and the audio returned are those
\* written by the last firing rule that wrote one, whatever phase 2 or an
\* earlier firing rule chose.
C19_LogicEffectOrder ==
    \A i \in LastTurn :
        LET e == log[i]
            fired == e.res.fired
            audios == FiringsOf(e, "send_audio")
            images == {k \in FiringsOf(e, "send_image_tag") : Len(ImagesFor(e, k)) > 0}
        IN  /\ \A j, k \in DOMAIN fired : j < k => fired[j] < fired[k]
            /\ e.res.branch = "rules" =>
                  /\ e.res.text = TextAfter(e.res.p2text, e.before.logicRules, fired, 1)
                  /\ startsWith(e.res.text, e.res.p2text)
                  /\ e.res.audio = IF audios = {} THEN e.res.p2audio
                                   ELSE Some(e.before.logicRules[fired[Last(audios)]].actionPayload)
                  /\ IF images = {} THEN e.res.image = e.res.p2image
                     ELSE \E k \in DOMAIN ImagesFor(e, Last(images)) :
                             e.res.image = Some(ImagesFor(e, Last(images))[k].data)

\* a lone send_text rule gives the text of a turn without text; and eight
\* rules fire in a turn whose text, image and audio were set by phase 2
C19_Witness ==
    /\ \E i \in Turns :
          /\ log[i].res.fired = <<10>>
          /\ log[i].res.p2text = "" /\ log[i].res.text = "alone"
    /\ \E i \in Turns :
          /\ log[i].res.fired = <<1, 2, 3, 4, 5, 6, 7, 10>>
          /\ log[i].res.p2text = "Go!" /\ log[i].res.text = "Go! one two alone"
          /\ log[i].res.p2image = Some("data:i1") /\ log[i].res.image = Some("data:i3")
          /\ log[i].res.p2audio = Some("data:a0") /\ log[i].res.audio = Some("data:a2")

\* the tags turn e knows: of its image rules, of its send_image_tag rules, of
\* the stored images and of the counters
TagsOf(e) ==
    {e.before.customTraining[r].imageTag : r \in DOMAIN e.before.customTraining}
      \cup {e.before.logicRules[r].actionPayload : r \in DOMAIN e.before.logicRules}
      \cup UNION {Range(Scenarios[scen].images[k].tags) : k \in DOMAIN Scenarios[scen].images}

\* an image was selected in turn e for the winning image rule, of tag
SentForTag(e, tag) ==
    /\ StoreQueried(e) /\ e.res.sel # None
    /\ e.before.customTraining[e.res.win.image.rule].imageTag = tag

\* C20: in a turn of a persona with logic rules, the counter of tag T grows
\* by exactly one iff an image was selected for the winning image rule of
\* tag T (a firing rule that resets the counter aside); a winner whose query
\* gives no image or throws, and an image sent by a send_image_tag action,
\* count nothing.
C20_TagCounters ==
    \A i \in LastTurn :
        LET e == log[i]
            before == e.before.memory.logicCounts
            after == After(i).memory.logicCounts
        IN  Len(e.before.logicRules) > 0 =>
              /\ \A tag \in TagsOf(e) :
                    ~ResetIn(i, "tag_" \o tag) =>
                        CountOf(after, "tag_" \o tag)
                          = CountOf(before, "tag_" \o tag)
                              + (IF SentForTag(e, tag) THEN 1 ELSE 0)
              /\ \A k \in TagKeys(after) :
                    k \in TagKeys(before) \/ \E tag \in TagsOf(e) : k = "tag_" \o tag

\* a turn whose store throws and a turn whose store has no image of the
\* winner's tag count no tag, and a turn that sends the cat of the image rule
\* and returns the fish of a logic rule counts the cat alone
C20_Witness ==
    /\ \E i \in Turns :
          /\ ~log[i].throws /\ StoreQueried(log[i]) /\ log[i].res.sel = None
          /\ log[i].before.customTraining[log[i].res.win.image.rule].imageTag = "ghost"
          /\ CountOf(After(i).memory.logicCounts, "tag_ghost") = 0
    /\ \E i \in Turns :
          /\ log[i].throws /\ StoreQueried(log[i]) /\ Len(log[i].before.logicRules) > 0
          /\ CountOf(After(i).memory.logicCounts, "tag_cat")
               = CountOf(log[i].before.memory.logicCounts, "tag_cat")
    /\ \E i \in Turns :
          /\ log[i].res.sel = Some("i1") /\ log[i].res.image = Some("data:i3")
          /\ CountOf(After(i).memory.logicCounts, "tag_cat")
               = CountOf(log[i].before.memory.logicCounts, "tag_cat") + 1
          /\ CountOf(After(i).memory.logicCounts, "tag_fish") = 0
          /\ CountOf(After(i).memory.logicCounts, "tag_dog") = 0

\* the number of times kw is a token of the message of turn e
TokenCount(e, kw) ==
    Cardinality({t \in DOMAIN tokenize(e.content) : tokenize(e.content)[t] = kw})

\* responseText, responseImage and responseAudio of turn e are all falsy
\* after phase 2 and the logic engine
EmptyAfterLogic(e) ==
    LET audios == FiringsOf(e, "send_audio")
        images == {k \in FiringsOf(e, "send_image_tag") : Len(ImagesFor(e, k)) > 0}
    IN  /\ TextAfter(e.res.p2text, e.before.logicRules, e.res.fired, 1) = ""
        /\ ~Truthy(e.res.p2image) /\ images = {}
        /\ IF audios = {} THEN ~Truthy(e.res.p2audio)
           ELSE e.before.logicRules[e.res.fired[Last(audios)]].actionPayload = ""

\* none of the three classifiers of phase 3 matches the message of turn e
Unclassified(e) ==
    /\ ~IsGreeting(LowerOf(e)) /\ ~IsTimeGreeting(LowerOf(e)) /\ ~IsHowAreYou(LowerOf(e))

\* C21: a turn sets waitingForDefinition iff, after rule matching and the
\* logic engine, text, image and audio are all empty and the message is
\* neither a greeting, a time-of-day greeting nor a how-are-you; the turn
\* then returns the teach-me prompt alone, waitingForDefinition is the
\* message, the rules are as before and the keyword counts of the turn are
\* in updatedPersona.  Every other turn leaves waitingForDefinition as it
\* was or clears it.
C21_TeachMeFallback ==
    \A i \in LastTurn :
        LET e == log[i]
            before == e.before.memory
            after == After(i).memory
        IN  IF Matched(e) /\ EmptyAfterLogic(e) /\ Unclassified(e)
            THEN /\ e.res.text = askPrompt
                 /\ e.res.image = None /\ e.res.audio = None
                 /\ after.waitingForDefinition = Some(e.content)
                 /\ After(i).customTraining = e.before.customTraining
                 /\ Len(e.before.logicRules) > 0 =>
                       \A kw \in TokenSetOf(e) :
                          ~ResetIn(i, "kw_" \o kw) =>
                              CountOf(after.logicCounts, "kw_" \o kw)
                                = CountOf(before.logicCounts, "kw_" \o kw)
                                    + TokenCount(e, kw)
            ELSE /\ after.waitingForDefinition
                      \in {before.waitingForDefinition, None}
                 /\ Matched(e) => after.waitingForDefinition = before.waitingForDefinition

\* a turn without answer of a persona with logic rules, one of which fires
\* with an empty text: the prompt is returned, the message is awaited and
\* its keyword is counted; and a turn without answer from the rules to which
\* a firing logic rule gives a text: nothing is awaited
C21_Witness ==
    /\ \E i \in Turns :
          /\ log[i].content = "mute" /\ log[i].res.fired = <<9>>
          /\ log[i].res.text = askPrompt
          /\ After(i).memory.waitingForDefinition = Some("mute")
          /\ CountOf(After(i).memory.logicCounts, "kw_mute")
               = CountOf(log[i].before.memory.logicCounts, "kw_mute") + 1
    /\ \E i \in Turns :
          /\ log[i].res.p2text = "" /\ FiredIn(i, 10)
          /\ log[i].res.text = "alone"
          /\ After(i).memory.waitingForDefinition = None

\* the images the store gives turn e for the tag of its image winner
CandidatesOf(e) ==
    IF ~StoreQueried(e) \/ e.throws THEN <<>>
    ELSE searchImages(Scenarios[scen].images,
                      e.before.customTraining[e.res.win.image.rule].imageTag)

\* the sequence s without its members in S
Without(s, S) ==
    LET Kept(x) == x \notin S
    IN  SelectSeq(s, Kept)

\* C22: in a turn whose image winner's tag has images, when all of them are
\* in lastSentImageIds the new list is the old one without the ids of these
\* images, every other id in its place, followed by the chosen id; when one
\* of them is not in the list, the new list is the old one followed by the
\* chosen id, which was not in it.
C22_ResetScope ==
    \A i \in LastTurn :
        LET e == log[i]
            before == e.before.memory.lastSentImageIds
            after == After(i).memory.lastSentImageIds
            ids == {CandidatesOf(e)[k].id : k \in DOMAIN CandidatesOf(e)}
        IN  ids # {} =>
              /\ e.res.sel # None /\ e.res.sel[1] \in ids
              /\ IF ids \subseteq Range(before)
                 THEN after = Append(Without(before, ids), e.res.sel[1])
                 ELSE /\ after = Append(before, e.res.sel[1])
                      /\ e.res.sel[1] \notin Range(before)

\* a cat is appended to a list that holds the dog and one cat; then the dog,
\* the only image of its tag, is asked for again: the dog is forgotten and
\* appended, and the two cats stay in their order
C22_Witness ==
    \E i \in Turns, a, b \in {"i1", "i2", "i3"} :
        /\ i + 1 \in Turns
        /\ log[i].before.memory.lastSentImageIds = <<"i4", a>>
        /\ After(i).memory.lastSentImageIds = <<"i4", a, b>>
        /\ log[i + 1].res.sel = Some("i4")
        /\ After(i + 1).memory.lastSentImageIds = <<a, b, "i4">>

\* the counter of logic rule r had reached its threshold after turn j
Reached(j, r) ==
    LET rule == log[j].before.logicRules[r]
        count == CountOf(After(j).memory.logicCounts, LogicKey(rule))
    IN  count > 0 /\ count >= rule.threshold

\* C23: the counter of a logic rule without resetOnTrigger never decreases,
\* and once it has reached the threshold the rule fires in every later turn
\* that comes to the logic engine.
C23_PersistentFiring ==
    \A i \in LastTurn :
        \A r \in DOMAIN log[i].before.logicRules :
            LET rule == log[i].before.logicRules[r]
                key == LogicKey(rule)
            IN  (~rule.resetOnTrigger /\ key # "") =>
                  /\ CountOf(After(i).memory.logicCounts, key)
                       >= CountOf(log[i].before.memory.logicCounts, key)
                  /\ \A j \in 1..(i - 1) :
                        (Reached(j, r) /\ Matched(log[i])) => FiredIn(i, r)

\* a logic rule of turn e with resetOnTrigger watches the counter key
ResetWatched(e, key) ==
    \E r \in DOMAIN e.before.logicRules :
        e.before.logicRules[r].resetOnTrigger /\ LogicKey(e.before.logicRules[r]) = key

\* C23, for a rule whose counter no rule with resetOnTrigger watches: the
\* counter of a logic rule without resetOnTrigger never decreases, and once
\* it has reached the threshold the rule fires in every later turn that
\* comes to the logic engine, with or without the keyword or an image of
\* the tag.
C23_PersistentUnlessShared ==
    \A i \in LastTurn :
        \A r \in DOMAIN log[i].before.logicRules :
            LET rule == log[i].before.logicRules[r]
                key == LogicKey(rule)
            IN  (~rule.resetOnTrigger /\ key # "" /\ ~ResetWatched(log[i], key)) =>
                  /\ CountOf(After(i).memory.logicCounts, key)
                       >= CountOf(log[i].before.memory.logicCounts, key)
                  /\ \A j \in 1..(i - 1) :
                        (Reached(j, r) /\ Matched(log[i])) => FiredIn(i, r)

\* a rule without reset on a tag fires in a later turn that sends no image,
\* and a rule without reset on a keyword fires in a later turn whose message
\* does not hold the keyword; no other rule watches their counters
C23_PersistsAlone ==
    \E i, j, k \in Turns :
        /\ i < j /\ j < k
        /\ ~ResetWatched(log[i], "tag_cat") /\ ~ResetWatched(log[i], "kw_n")
        /\ log[i].res.sel = Some("i1") /\ FiredIn(i, 3)
        /\ log[j].res.sel = None /\ FiredIn(j, 3) /\ FiredIn(j, 4)
        /\ "n" \notin TokenSetOf(log[k]) /\ FiredIn(k, 4)
        /\ ~log[k].before.logicRules[3].resetOnTrigger
        /\ ~log[k].before.logicRules[4].resetOnTrigger

\* C24: a call never writes to the persona object it is given nor to an
\* object that persona refers to: the persona given to any turn so far
\* still reads as it did when the turn began (its logicCounts,
\* lastSentImageIds, waitingForDefinition and customTraining included), and
\* what the turn changed is read from the updatedPersona it returned.
C24_InputNotMutated ==
    /\ Deref(heap, root) = persona
    /\ \A i \in Turns :
          /\ Deref(heap, log[i].root) = log[i].before
          /\ Deref(heap, IF i < Len(log) THEN log[i + 1].root ELSE root) = After(i)

\* a turn that counts a keyword and sends an image, a turn that asks for a
\* definition and a turn that learns it: each returned a persona that
\* differs from the one it was given
C24_Witness ==
    /\ \E i \in Turns :
          /\ After(i).memory.logicCounts # log[i].before.memory.logicCounts
          /\ After(i).memory.lastSentImageIds # log[i].before.memory.lastSentImageIds
          /\ Deref(heap, log[i].root) = log[i].before
    /\ \E i \in Turns :
          /\ log[i].res.branch = "teach"
          /\ After(i).memory.waitingForDefinition # log[i].before.memory.waitingForDefinition
          /\ After(i).memory.logicCounts # log[i].before.memory.logicCounts
    /\ \E i \in Turns :
          /\ log[i].res.branch = "learn"
          /\ After(i).customTraining # log[i].before.customTraining
          /\ Deref(heap, log[i].root) = log[i].before

\* no member of the sequence s occurs twice in it
NoDuplicates(s) == \A j, k \in DOMAIN s : j # k => s[j] # s[k]

\* the tags of the images of the store
StoreTags ==
    UNION {Range(Scenarios[scen].images[k].tags) : k \in DOMAIN Scenarios[scen].images}

\* C26: when the ids of the stored images are unique and the first
\* lastSentImageIds holds no id twice, lastSentImageIds holds no id twice
\* after any number of turns, and for each tag it holds at most as many
\* entries of images of the tag as the tag has images.
C26_NoDuplicateIds ==
    LET images == Scenarios[scen].images
        ids == persona.memory.lastSentImageIds
    IN  (/\ NoDuplicates([k \in DOMAIN images |-> images[k].id])
         /\ NoDuplicates(Scenarios[scen].persona.memory.lastSentImageIds)) =>
           /\ NoDuplicates(ids)
           /\ \A tag \in StoreTags :
                 Cardinality({k \in DOMAIN ids : ids[k] \in IdsOfTag(tag)})
                   <= Cardinality(IdsOfTag(tag))

\* the list held the dog and the three cats, and a fourth request for a cat
\* has put one cat back after the dog
C26_Witness ==
    /\ Len(log) = 4
    /\ Len(After(3).memory.lastSentImageIds) = 4
    /\ Range(After(3).memory.lastSentImageIds) = {"i1", "i2", "i3", "i4"}
    /\ Len(persona.memory.lastSentImageIds) = 2
    /\ persona.memory.lastSentImageIds[1] = "i4"
    /\ log[4].res.sel = Some(persona.memory.lastSentImageIds[2])

(***************************************************************************)
(* The App component: handleSendMessage, its delayed reply and             *)
(* handleRefreshChat                                                       *)
(***************************************************************************)
\* the number of messages the user sends
MaxSends == 2
\* the last value of the clock
MaxTime == 2
\* the number of times the user clears a chat
MaxClears == 1

PersonaIds == {"pa", "pb"}

AppPersona(id) ==
    Persona(id, <<ImageRule(<<"pic">>, <<Resp("Look")>>, "cat")>>, <<>>, <<>>)

\* the images the store holds for each persona
AppImages == <<Image("i1", <<"cat">>, "")>>

AppMessages == {"pic", "zz"}

\* new Date().getHours() at the App's calls
AppHours == {9}

InitApp ==
    /\ scen = 0 /\ persona = AppPersona("pa") /\ log = <<>>
    /\ heap = <<>> /\ root = 0
    /\ personas = [id \in PersonaIds |-> AppPersona(id)]
    /\ sessions = [id \in PersonaIds |-> <<>>]
    /\ activePersonaId = None
    /\ lastClearTime = [id \in PersonaIds |-> 0]
    /\ dbPersonas = [id \in PersonaIds |-> AppPersona(id)]
    /\ now = 1
    /\ tasks = <<>>
    /\ clears = 0
    /\ deleted = {}
    /\ DeployIdle

\* prev.map(x => x.id === id ? v : x) on a list keyed by id: nothing is added
MapAt(f, id, v) == [x \in DOMAIN f |-> IF x = id THEN v ELSE f[x]]

\* the put of an object store keyed by id: the record is added or replaced
Put(f, id, v) == [x \in DOMAIN f \cup {id} |-> IF x = id THEN v ELSE f[x]]

\* prev.filter(x => !ids.includes(x.id)), and the deletes of the stores
Remove(f, ids) == [x \in DOMAIN f \ ids |-> f[x]]

\* ChatList onSelect: setActivePersonaId(id), for a persona of the list
Select(id) ==
    /\ id \in DOMAIN personas
    /\ activePersonaId # Some(id)
    /\ activePersonaId' = Some(id)
    /\ UNCHANGED <<convVars, deployVars, personas, sessions, lastClearTime, dbPersonas, now,
                   tasks,
                   clears, deleted>>

\* Date.now(): the millisecond of the last reading or a later one
DateNow == {t \in {now, now + 1} : t <= MaxTime}

\* a message of a session: the user's, or one of the bot's for the send turn
Msg(role, type, content, turn) ==
    [role |-> role, type |-> type, content |-> content, turn |-> turn]

\* handleSendMessage up to its first await: the message is stamped and
\* appended to the session of the active persona
HandleSendMessage(text) ==
    /\ Len(tasks) < MaxSends
    /\ activePersonaId # None
    /\ activePersonaId[1] \in DOMAIN personas
    /\ \E time \in DateNow :
         LET id == activePersonaId[1]
         IN  /\ now' = time
             /\ sessions' = IF id \in DOMAIN sessions
                             THEN MapAt(sessions, id,
                                        Append(sessions[id],
                                               Msg("USER", "TEXT", text, Len(tasks) + 1)))
                             ELSE sessions
             /\ tasks' = Append(tasks, [id |-> id, text |-> text, messageTime |-> time,
                                        currentPersona |-> personas[id],
                                        pc |-> "saving", response |-> None,
                                        cleared |-> FALSE, removed |-> FALSE])
    /\ UNCHANGED <<convVars, deployVars, personas, activePersonaId, lastClearTime, dbPersonas,
                   clears,
                   deleted>>

\* after await db.saveSession: setPersonas and db.savePersona with
\* updatedPersonaForList, then setTimeout
ContinueSend(t) ==
    /\ tasks[t].pc = "saving"
    /\ personas' = MapAt(personas, tasks[t].id, tasks[t].currentPersona)
    /\ dbPersonas' = Put(dbPersonas, tasks[t].id, tasks[t].currentPersona)
    /\ tasks' = [tasks EXCEPT ![t].pc = "timer"]
    /\ UNCHANGED <<convVars, deployVars, sessions, activePersonaId, lastClearTime, now, clears,
                   deleted>>

\* what db.searchImages finds for the persona: deleteImagesByPersona has
\* emptied the store of a deleted persona
ImagesOf(id) == IF id \in deleted THEN <<>> ELSE AppImages

\* the call waits for the Image Store (IndexedDB): other handlers run
\* before it returns
Queried(p, res) ==
    \/ /\ res.win.image.rule # 0
       /\ p.customTraining[res.win.image.rule].imageTag # ""
    \/ \E k \in DOMAIN res.fired : p.logicRules[res.fired[k]].action = "send_image_tag"

\* the chat was cleared after the message was sent
ClearedSince(t) == lastClearTime[tasks[t].id] > tasks[t].messageTime

\* the reply of task t applied to the persona that is active when the reply
\* comes (not the code)
Applied_ToActive(t, res) ==
    LET id == IF activePersonaId # None THEN activePersonaId[1] ELSE tasks[t].id
        botMsg == <<Msg("MODEL", "TEXT", res.text, t)>>
        image == IF Truthy(res.image)
                 THEN <<Msg("MODEL", "IMAGE", res.image[1], t)>> ELSE <<>>
        audio == IF Truthy(res.audio)
                 THEN <<Msg("MODEL", "AUDIO", res.audio[1], t)>> ELSE <<>>
    IN  /\ sessions' = IF id \in DOMAIN sessions
                        THEN MapAt(sessions, id, sessions[id] \o botMsg \o image \o audio)
                        ELSE sessions
        /\ personas' = MapAt(personas, id, res.updatedPersona)
        /\ dbPersonas' = Put(dbPersonas, id, res.updatedPersona)

\* the reply of task t is appended to the session and the persona replaced by
\* finalPersonaState
Applied(t, res) ==
    LET id == tasks[t].id
        botMsg == <<Msg("MODEL", "TEXT", res.text, t)>>
        image == IF Truthy(res.image)
                 THEN <<Msg("MODEL", "IMAGE", res.image[1], t)>> ELSE <<>>
        audio == IF Truthy(res.audio)
                 THEN <<Msg("MODEL", "AUDIO", res.audio[1], t)>> ELSE <<>>
    IN  /\ sessions' = IF id \in DOMAIN sessions
                        THEN MapAt(sessions, id, sessions[id] \o botMsg \o image \o audio)
                        ELSE sessions
        /\ personas' = MapAt(personas, id, res.updatedPersona)
        /\ dbPersonas' = Put(dbPersonas, id, res.updatedPersona)

\* the timer of task t fires and the chat was cleared: no reply
TimerDrops(t) ==
    /\ tasks[t].pc = "timer"
    /\ ClearedSince(t)
    /\ tasks' = [tasks EXCEPT ![t].pc = "dropped"]
    /\ UNCHANGED <<convVars, deployVars, personas, sessions, activePersonaId, lastClearTime,
                   dbPersonas, now, clears, deleted>>

\* the timer of task t fires and processOfflineMessage is called with the
\* persona of send time; a call that does not wait for the store is followed
\* by the second check and the reply at once.  Each send sets its own timer
\* of 1000 + Math.random() * 1000 ms: the timers of two sends less than a
\* second apart fire in either order
TimerFires(t) ==
    /\ tasks[t].pc = "timer"
    /\ ~ClearedSince(t)
    /\ \E hour \in AppHours :
       \E res \in processOfflineMessage(tasks[t].currentPersona, tasks[t].text, "TEXT",
                                        hour, FALSE, ImagesOf(tasks[t].id)) :
         IF Queried(tasks[t].currentPersona, res)
         THEN /\ tasks' = [tasks EXCEPT ![t].pc = "computing", ![t].response = Some(res)]
              /\ UNCHANGED <<personas, sessions, dbPersonas>>
         ELSE /\ tasks' = [tasks EXCEPT ![t].pc = "applied", ![t].response = Some(res)]
              /\ Applied(t, res)
    /\ UNCHANGED <<convVars, deployVars, activePersonaId, lastClearTime, now, clears, deleted>>

\* processOfflineMessage returned and the chat was cleared meanwhile
ReplyDropped(t) ==
    /\ tasks[t].pc = "computing"
    /\ ClearedSince(t)
    /\ tasks' = [tasks EXCEPT ![t].pc = "dropped"]
    /\ UNCHANGED <<convVars, deployVars, personas, sessions, activePersonaId, lastClearTime,
                   dbPersonas, now, clears, deleted>>

\* processOfflineMessage returned: the reply is applied
ReplyApplied(t) ==
    /\ tasks[t].pc = "computing"
    /\ ~ClearedSince(t)
    /\ tasks' = [tasks EXCEPT ![t].pc = "applied"]
    /\ Applied(t, tasks[t].response[1])
    /\ UNCHANGED <<convVars, deployVars, activePersonaId, lastClearTime, now, clears, deleted>>

\* a send whose reply is neither applied nor dropped yet
Pending(t) == tasks[t].pc \in {"saving", "timer", "computing"}

\* handleRefreshChat (the user confirms): the clear time is recorded and the
\* session emptied; tasks[t].cleared records, for the properties, that the
\* chat of a pending send was cleared
HandleRefreshChat ==
    /\ clears < MaxClears
    /\ activePersonaId # None
    /\ \E time \in DateNow :
         LET id == activePersonaId[1]
         IN  /\ now' = time
             /\ lastClearTime' = [lastClearTime EXCEPT ![id] = time]
             /\ sessions' = MapAt(sessions, id, <<>>)
             /\ dbPersonas' = IF id \in DOMAIN personas
                               THEN Put(dbPersonas, id, personas[id]) ELSE dbPersonas
             /\ tasks' = [t \in DOMAIN tasks |->
                            IF tasks[t].id = id /\ Pending(t)
                            THEN [tasks[t] EXCEPT !.cleared = TRUE] ELSE tasks[t]]
    /\ clears' = clears + 1
    /\ UNCHANGED <<convVars, deployVars, personas, activePersonaId, deleted>>

\* the timer of send t is set and its reply is not applied yet
ReplyPending(t) == tasks[t].pc \in {"timer", "computing"}

\* handleBulkDelete(ids): the personas and their sessions leave the lists
\* and the stores; a persona cannot be deleted twice; tasks[t].removed
\* records, for the properties, that the persona of a pending reply was
\* deleted
HandleBulkDelete(ids) ==
    /\ ids # {} /\ ids \subseteq DOMAIN personas
    /\ personas' = Remove(personas, ids)
    /\ sessions' = Remove(sessions, ids)
    /\ activePersonaId' = IF activePersonaId # None /\ activePersonaId[1] \in ids
                          THEN None ELSE activePersonaId
    /\ dbPersonas' = Remove(dbPersonas, ids)
    /\ deleted' = deleted \cup ids
    /\ tasks' = [t \in DOMAIN tasks |->
                   IF tasks[t].id \in ids /\ ReplyPending(t)
                   THEN [tasks[t] EXCEPT !.removed = TRUE] ELSE tasks[t]]
    /\ UNCHANGED <<convVars, deployVars, lastClearTime, now, clears>>

NextApp ==
    \/ \E id \in PersonaIds : Select(id)
    \/ \E text \in AppMessages : HandleSendMessage(text)
    \/ \E t \in DOMAIN tasks : ContinueSend(t)
    \/ \E t \in DOMAIN tasks : TimerDrops(t)
    \/ \E t \in DOMAIN tasks : TimerFires(t)
    \/ \E t \in DOMAIN tasks : ReplyDropped(t)
    \/ \E t \in DOMAIN tasks : ReplyApplied(t)
    \/ HandleRefreshChat
    \/ \E ids \in SUBSET PersonaIds : HandleBulkDelete(ids)

SpecApp == InitApp /\ [][NextApp]_vars

(***************************************************************************)
(* The deployer: GitHubService.uploadFile for the workflow file, and       *)
(* handleDeploy from that upload to its end                                *)
(***************************************************************************)
\* const MAX_ATTEMPTS = 60
MAX_ATTEMPTS == 60

\* the blob shas the contents API reports for the file
Shas == {"s1", "s2"}

\* the commits a branch or a Pages build is reported for
Commits == {"c1", "c2"}

\* the GET of uploadFile: the file exists with a sha, the response is not
\* ok, or fetch rejects (caught and ignored)
GetOutcomes == [kind : {"found"}, sha : Shas] \cup [kind : {"missing", "rejects"}]

\* the PUT of uploadFile: res.ok, a response that is not ok, or fetch rejects
PutOutcomes == {"ok", "error", "rejects"}

\* a retry test that lets retryCount 3 retry as well (not the code)
ShouldRetry_Inclusive(retryCount) == retryCount <= 3

\* if (retryCount < 3)
ShouldRetry(retryCount) == retryCount < 3

RECURSIVE Pow2(_)
\* Math.pow(2, n)
Pow2(n) == IF n = 0 THEN 1 ELSE 2 * Pow2(n - 1)

\* const delay = 1000 * Math.pow(2, retryCount)
Backoff(retryCount) == 1000 * Pow2(retryCount)

\* the call uploadFile(owner, repo, path, content, message) of handleDeploy
\* with retryCount = 0; puts and slept keep the PUT requests and the delays
\* of the call and of the calls it makes of itself
UploadStart ==
    [pc |-> "get", retryCount |-> 0, sha |-> None, puts |-> <<>>, slept |-> <<>>,
     error |-> ""]

\* handleDeploy at addLog('Deploying build workflow...'): setState(DEPLOYING)
\* and setLogs([]) were called at its start; logs holds the messages logged
\* from here on (a message logged twice is held once); threw records that
\* the throw of the polling loop was executed
DeployStart ==
    [pc |-> "upload", state |-> "DEPLOYING", logs |-> {"Deploying build workflow..."},
     latestCommitSha |-> "", attempts |-> 0, isBuilt |-> FALSE, deployedUrl |-> None,
     threw |-> FALSE]

InitDeploy ==
    /\ scen = 0 /\ persona = AppPersona("pa") /\ log = <<>>
    /\ heap = <<>> /\ root = 0
    /\ AppIdle
    /\ upload = UploadStart
    /\ deploy = DeployStart

\* addLog(message)
addLog(d, message) == [d EXCEPT !.logs = @ \cup {message}]

\* uploadFile: the GET of the file's sha; let sha is undefined unless the
\* response is ok
UploadGet(o) ==
    /\ upload.pc = "get"
    /\ upload' = [upload EXCEPT !.pc = "put",
                                !.sha = IF o.kind = "found" THEN Some(o.sha) ELSE None]
    /\ UNCHANGED <<convVars, appVars, deploy>>

\* the call after its PUT got the outcome o at retry count retryCount: it
\* returns res.json(), waits and calls itself, or throws; a rejected fetch
\* is not caught
AfterPut(u, o) ==
    LET put == [retryCount |-> u.retryCount, sha |-> u.sha, outcome |-> o]
        v == [u EXCEPT !.puts = Append(@, put)]
    IN  IF o = "rejects" THEN [v EXCEPT !.pc = "thrown", !.error = "Failed to fetch"]
        ELSE IF o = "ok" THEN [v EXCEPT !.pc = "returned"]
        ELSE IF ShouldRetry(u.retryCount) THEN [v EXCEPT !.pc = "backoff"]
        ELSE [v EXCEPT !.pc = "thrown",
                       !.error = "Failed to upload .github/workflows/deploy.yml"]

\* uploadFile: the PUT and the test of res.ok
UploadPut(o) ==
    /\ upload.pc = "put"
    /\ upload' = AfterPut(upload, o)
    /\ UNCHANGED <<convVars, appVars, deploy>>

\* uploadFile: the delay is over and the call calls itself with
\* retryCount + 1
UploadRetry ==
    /\ upload.pc = "backoff"
    /\ upload' = [upload EXCEPT !.pc = "get", !.sha = None,
                                !.slept = Append(@, Backoff(upload.retryCount)),
                                !.retryCount = @ + 1]
    /\ UNCHANGED <<convVars, appVars, deploy>>

\* await github.uploadFile(...) returned: the call is over
UploadReturned ==
    /\ deploy.pc = "upload" /\ upload.pc = "returned"
    /\ deploy' = [addLog(deploy, "Initializing GitHub Pages (Type: workflow)...")
                    EXCEPT !.pc = "enablePages"]
    /\ upload' = [pc |-> "idle"]
    /\ UNCHANGED <<convVars, appVars>>

\* catch (error) of handleDeploy: addLog('Error: ' + error.message); the
\* state stays DEPLOYING
Caught(d, message) == [addLog(d, "Error: " \o message) EXCEPT !.pc = "failed"]

\* await github.uploadFile(...) threw
UploadThrew ==
    /\ deploy.pc = "upload" /\ upload.pc = "thrown"
    /\ deploy' = Caught(deploy, upload.error)
    /\ upload' = [pc |-> "idle"]
    /\ UNCHANGED <<convVars, appVars>>

\* try { await github.enablePages(...) } catch: one of the two messages, and
\* the two that follow
EnablePages(ok) ==
    /\ deploy.pc = "enablePages"
    /\ deploy' = [deploy EXCEPT
                    !.pc = "getBranch",
                    !.logs = @ \cup {IF ok THEN "GitHub Pages configuration initialized."
                                           ELSE "GitHub Pages configuration verified.",
                                     "Triggering build pipeline...",
                                     "This ensures a fresh build of your site."}]
    /\ UNCHANGED <<convVars, appVars, upload>>

\* try { branchInfo = await github.getBranch(...) } catch: latestCommitSha
\* stays '' when the call throws
GetBranch(o) ==
    /\ deploy.pc = "getBranch"
    /\ deploy' = IF o = None THEN [deploy EXCEPT !.pc = "poll"]
                 ELSE [addLog(deploy, "Tracking build for commit: " \o o[1])
                         EXCEPT !.pc = "poll", !.latestCommitSha = o[1]]
    /\ UNCHANGED <<convVars, appVars, upload>>

\* what await github.getPagesBuilds(...) gives: fetch rejects, no build (or
\* a response that is not ok), or the latest build
BuildsOutcomes ==
    [kind : {"rejects", "empty"}]
      \cup [kind : {"latest"}, status : {"building", "built", "errored"},
            commit : Commits]

\* const shaMatch = latestCommitSha ? latest.commit === latestCommitSha : true
shaMatch(d, latest) ==
    IF d.latestCommitSha # "" THEN latest.commit = d.latestCommitSha ELSE TRUE

\* the try block of one round of the loop, attempts already counted; the
\* throw of the errored branch is caught by the catch of the same try,
\* which ignores it
TryBuilds(d, b) ==
    IF b.kind = "rejects" THEN d
    ELSE IF b.kind = "empty"
    THEN IF d.attempts % 5 = 0 THEN addLog(d, "Waiting for build to be queued...") ELSE d
    ELSE IF b.status = "built" /\ shaMatch(d, b)
    THEN [addLog(d, "Build successful!") EXCEPT !.isBuilt = TRUE]
    ELSE IF b.status = "errored" /\ shaMatch(d, b)
    THEN IF d.attempts > 5 THEN [d EXCEPT !.threw = TRUE] ELSE d
    ELSE IF d.attempts % 5 = 0
    THEN addLog(d, "Current status: " \o b.status \o "...") ELSE d

\* while (!isBuilt && attempts < MAX_ATTEMPTS)
Polling(d) == ~d.isBuilt /\ d.attempts < MAX_ATTEMPTS

\* one round of the loop: the delay of 4000 ms, attempts++ and the try
Poll(b) ==
    /\ deploy.pc = "poll" /\ Polling(deploy)
    /\ deploy' = TryBuilds([deploy EXCEPT !.attempts = @ + 1], b)
    /\ UNCHANGED <<convVars, appVars, upload>>

finalUrl == "https://owner.github.io/repo/"

\* after the loop: both branches set the url and AppState.SUCCESS
Finished(d) ==
    [d EXCEPT !.pc = "done", !.state = "SUCCESS", !.deployedUrl = Some(finalUrl),
              !.logs = @ \cup (IF d.isBuilt
                               THEN {"Verifying site availability...",
                                     "Deployment process finished. Site live at " \o finalUrl}
                               ELSE {"Build taking longer than expected."})]

LoopEnds ==
    /\ deploy.pc = "poll" /\ ~Polling(deploy)
    /\ deploy' = Finished(deploy)
    /\ UNCHANGED <<convVars, appVars, upload>>

NextDeploy ==
    \/ \E o \in GetOutcomes : UploadGet(o)
    \/ \E o \in PutOutcomes : UploadPut(o)
    \/ UploadRetry
    \/ UploadReturned
    \/ UploadThrew
    \/ \E ok \in BOOLEAN : EnablePages(ok)
    \/ \E o \in {None} \cup {Some(c) : c \in Commits} : GetBranch(o)
    \/ \E b \in BuildsOutcomes : Poll(b)
    \/ LoopEnds

SpecDeploy == InitDeploy /\ [][NextDeploy]_vars

(***************************************************************************)
(* Properties of the App                                                   *)
(***************************************************************************)
\* C3: when the chat of a persona is cleared after a message for it was
\* stamped and before the reply to it is applied, the reply is discarded:
\* no bot message for that send is appended to the session.
C3_StaleReplySuppressed ==
    \A t \in DOMAIN tasks :
        tasks[t].cleared =>
            /\ tasks[t].pc # "applied"
            /\ \A id \in DOMAIN sessions : \A k \in DOMAIN sessions[id] :
                  ~(sessions[id][k].role = "MODEL" /\ sessions[id][k].turn = t)

\* C4: at most one turn per persona is in flight between handleSendMessage
\* and the application of its reply.
C4_OneInFlight ==
    \A id \in PersonaIds :
        Cardinality({t \in DOMAIN tasks : tasks[t].id = id /\ Pending(t)}) <= 1

\* the personas the sends to persona b have produced: the persona as
\* created, as stamped by a send to b, and as returned by a call for b
OwnPersonas(b) ==
    {AppPersona(b)}
      \cup {tasks[t].currentPersona : t \in {u \in DOMAIN tasks : tasks[u].id = b}}
      \cup {tasks[t].response[1].updatedPersona :
               t \in {u \in DOMAIN tasks : tasks[u].id = b /\ tasks[u].response # None}}

\* C25: whatever the order of the steps of the sends, and whichever persona
\* is active when a reply comes, the session of a persona holds only the
\* messages of the sends to that persona, and its record in the list and in
\* the persona store is one the sends to that persona have produced: a
\* persona no message was sent to has its first rules and memory and an
\* empty session.
C25_PersonaIsolation ==
    /\ \A b \in DOMAIN sessions : \A k \in DOMAIN sessions[b] :
          tasks[sessions[b][k].turn].id = b
    /\ \A b \in DOMAIN personas : personas[b] \in OwnPersonas(b)
    /\ \A b \in DOMAIN dbPersonas : dbPersonas[b] \in OwnPersonas(b)

\* the reply to a message for pa is applied while pb is active and has a
\* send of its own under way: pa has the reply and a changed memory, pb has
\* its own message alone and its first memory
C25_Witness ==
    /\ Len(tasks) = 2 /\ tasks[1].id = "pa" /\ tasks[2].id = "pb"
    /\ tasks[1].pc = "applied" /\ Pending(2)
    /\ activePersonaId = Some("pb")
    /\ "pa" \in DOMAIN sessions /\ "pb" \in DOMAIN sessions
    /\ Len(sessions["pa"]) = 3 /\ sessions["pa"][3].type = "IMAGE"
    /\ personas["pa"].memory.lastSentImageIds = <<"i1">>
    /\ Len(sessions["pb"]) = 1 /\ sessions["pb"][1].turn = 2
    /\ personas["pb"] = AppPersona("pb")

\* the reply of send t was applied after the persona of the send was
\* deleted (a persona is deleted at most once and never created again)
RepliedAfterDelete(t) == tasks[t].pc = "applied" /\ tasks[t].removed

\* C27: a reply that was pending when handleBulkDelete removed its persona
\* neither writes the persona back to the persona store nor appends to a
\* session of the persona: after it the persona is in no store and no list.
C27_NoResurrection ==
    \A t \in DOMAIN tasks :
        RepliedAfterDelete(t) =>
            /\ tasks[t].id \notin DOMAIN dbPersonas
            /\ tasks[t].id \notin DOMAIN personas
            /\ tasks[t].id \notin DOMAIN sessions

\* a reply applied after the deletion of its persona leaves the list of
\* personas and the sessions without the persona
C27_ListsStayClean ==
    \E t \in DOMAIN tasks :
        /\ RepliedAfterDelete(t)
        /\ tasks[t].id \notin DOMAIN personas
        /\ tasks[t].id \notin DOMAIN sessions


\* the positions of the bot's messages in the session of persona id
Replies(id) == {j \in DOMAIN sessions[id] : sessions[id][j].role = "MODEL"}

\* C28: the replies of a session stand in the order in which their messages
\* were sent: no reply to a later send stands before a reply to an earlier
\* send, whatever the reply delays were.
C28_ReplyOrder ==
    \A id \in DOMAIN sessions :
        \A j, k \in Replies(id) :
            j < k => sessions[id][j].turn <= sessions[id][k].turn

\* two sends to one persona, both replies applied, in the order of the sends
C28_InOrder ==
    \E id \in DOMAIN sessions :
        \E j, k \in Replies(id) :
            /\ j < k
            /\ sessions[id][j].turn = 1 /\ sessions[id][k].turn = 2
            /\ tasks[1].id = id /\ tasks[2].id = id


(***************************************************************************)
(* Properties of the deployer                                              *)
(***************************************************************************)
\* a call of uploadFile is running or has just ended
Uploading == upload.pc # "idle"

\* C29: one call of uploadFile makes at most four PUT attempts, with
\* retryCount 0 to 3 and the delays 1000, 2000 and 4000 ms between them; an
\* attempt that succeeds is the last one and the call returns; after a
\* fourth attempt that fails the call throws.
C29_BoundedUploadRetry ==
    Uploading =>
        LET puts == upload.puts
            n == Len(puts)
        IN  /\ n <= 4
            /\ upload.retryCount <= 3
            /\ \A k \in DOMAIN puts : puts[k].retryCount = k - 1
            /\ \A k \in DOMAIN upload.slept : upload.slept[k] = 1000 * Pow2(k - 1)
            /\ \A k \in DOMAIN puts :
                  puts[k].outcome = "ok" => k = n /\ upload.pc = "returned"
            /\ upload.pc = "returned" => n >= 1 /\ puts[n].outcome = "ok"
            /\ (n = 4 /\ puts[4].outcome # "ok") => upload.pc = "thrown"

\* four attempts got a response that was not ok, the call waited 1000, 2000
\* and 4000 ms between them and has thrown
C29_ThrownAfterFour ==
    /\ upload.pc = "thrown"
    /\ Len(upload.puts) = 4
    /\ \A k \in DOMAIN upload.puts : upload.puts[k].outcome = "error"
    /\ upload.slept = <<1000, 2000, 4000>>
    /\ upload.error = "Failed to upload .github/workflows/deploy.yml"

\* the message of the error the polling loop throws, as the catch of
\* handleDeploy would log it
BuildErrorLogged ==
    \E m \in deploy.logs :
        includes(m, "GitHub Pages build reported an error")

\* C30: once the latest build of the tracked commit was reported errored on
\* an attempt after the 5th, the deployment has stopped with the build error
\* logged and the app never reaches AppState.SUCCESS; and the loop never
\* makes more than 60 attempts.
C30_BuildErrorEndsDeployment ==
    /\ deploy.pc # "idle" => deploy.attempts <= MAX_ATTEMPTS
    /\ (deploy.pc # "idle" /\ deploy.threw) =>
          /\ deploy.pc = "failed"
          /\ BuildErrorLogged
          /\ deploy.state # "SUCCESS"

\* the build of the tracked commit was reported errored after the 5th
\* attempt, and the deployment ended in AppState.SUCCESS after 60 attempts
\* with no error logged
C30_SuccessAfterBuildError ==
    /\ deploy.pc = "done"
    /\ deploy.threw
    /\ deploy.latestCommitSha = "c1"
    /\ deploy.attempts = MAX_ATTEMPTS
    /\ deploy.state = "SUCCESS"
    /\ ~BuildErrorLogged

=============================================================================
